---- MODULE Spec2Model ----
(***************************************************************************)
(* Model of the query-construction and result-shaping layer of todoist-ai: *)
(* the find-tasks and find-tasks-by-date tools and the filter helpers they *)
(* call.                                                                   *)
(*                                                                         *)
(* A JavaScript string is a sequence of one-character strings, so that     *)
(* concatenation, substring search and case folding are computed and not   *)
(* assumed.  The values undefined and null are the two sequences Undefined *)
(* and Null, whose single element has more than one character and so is    *)
(* no string of the program.  Enumerated arguments (filtering mode,        *)
(* labels operator, overdue option) are plain TLA+ strings.                *)
(***************************************************************************)
EXTENDS Integers, Sequences, FiniteSets, TLC

VARIABLES tool, pc, args, calls, todoistUser, resolved, response, result, tz

\* The HTTP front ends: the session registries, the transports created so
\* far with their server instances, and the answer to the last request.
VARIABLES transports, sessions, reply

toolVars == <<tool, pc, args, calls, todoistUser, resolved, response, result, tz>>

serverVars == <<transports, sessions, reply>>

vars == <<toolVars, serverVars>>

-----------------------------------------------------------------------------
(* JavaScript values and string primitives *)

Undefined == <<"undefined">>

Null == <<"null">>

UndefinedList == <<Undefined>>

\* JavaScript truthiness of a string-or-absent value.
Truthy(s) == s # Undefined /\ s # Null /\ s # <<>>

UpperChars == <<"A", "B", "C", "D", "E", "F", "G", "H", "I", "J", "K", "L", "M",
                "N", "O", "P", "Q", "R", "S", "T", "U", "V", "W", "X", "Y", "Z">>

LowerChars == <<"a", "b", "c", "d", "e", "f", "g", "h", "i", "j", "k", "l", "m",
                "n", "o", "p", "q", "r", "s", "t", "u", "v", "w", "x", "y", "z">>

ToLowerChar(c) ==
    IF \E i \in 1..Len(UpperChars) : UpperChars[i] = c
    THEN LowerChars[CHOOSE i \in 1..Len(UpperChars) : UpperChars[i] = c]
    ELSE c

\* String.prototype.toLowerCase
ToLowerCase(s) == [i \in 1..Len(s) |-> ToLowerChar(s[i])]

\* String.prototype.includes
Includes(s, sub) ==
    \E i \in 0..(Len(s) - Len(sub)) : SubSeq(s, i + 1, i + Len(sub)) = sub

\* String.prototype.startsWith
StartsWith(s, p) == Len(s) >= Len(p) /\ SubSeq(s, 1, Len(p)) = p

\* Array.prototype.includes on an array of strings
ArrayIncludes(arr, x) == \E i \in 1..Len(arr) : arr[i] = x

\* Array.prototype.join
RECURSIVE Join(_, _)
Join(parts, sep) ==
    IF Len(parts) = 0 THEN <<>>
    ELSE IF Len(parts) = 1 THEN parts[1]
    ELSE parts[1] \o sep \o Join(Tail(parts), sep)

\* Array.prototype.filter
Filter(arr, Keep(_)) == SelectSeq(arr, Keep)

\* Boolean(x) of a cursor value
ToBoolean(s) == Truthy(s)

-----------------------------------------------------------------------------
(* String literals of the source *)

S_SEARCH == <<"s", "e", "a", "r", "c", "h", ":", " ">>

S_AMP == <<" ", "&", " ">>

S_TODAY == <<"t", "o", "d", "a", "y">>

S_OVERDUE == <<"o", "v", "e", "r", "d", "u", "e">>

S_TODAY_OR_OVERDUE == <<"(", "t", "o", "d", "a", "y", " ", "|", " ", "o", "v", "e", "r", "d", "u", "e", ")">>

S_DUE_AFTER == <<"(", "d", "u", "e", " ", "a", "f", "t", "e", "r", ":", " ">>

S_OR_DUE == <<" ", "|", " ", "d", "u", "e", ":", " ">>

S_DUE_BEFORE == <<")", " ", "&", " ", "d", "u", "e", " ", "b", "e", "f", "o", "r", "e", ":", " ">>

S_ASSIGNED_TO == <<"a", "s", "s", "i", "g", "n", "e", "d", " ", "t", "o", ":", " ">>

S_ASSIGNED_TO_OTHERS == <<"a", "s", "s", "i", "g", "n", "e", "d", " ", "t", "o", ":", " ", "o", "t", "h", "e", "r", "s">>

S_NOT_ASSIGNED_TO_OTHERS == <<"!", "a", "s", "s", "i", "g", "n", "e", "d", " ", "t", "o", ":", " ", "o", "t", "h", "e", "r", "s">>

S_LABEL_AND == <<" ", " ", "&", " ", " ">>

S_LABEL_OR == <<" ", " ", "|", " ", " ">>

RESPONSIBLE_USER_FILTERING == {"assigned", "unassignedOrMe", "all"}

MSG_MISSING_FILTER ==
    "At least one filter must be provided: searchText, projectId, sectionId, parentId, responsibleUser, or labels"

MSG_MISSING_DATE ==
    "Either startDate must be provided or overdueOption must be set to overdue-only"

-----------------------------------------------------------------------------
(* filter-helpers: responsible-user helpers and appendToQuery *)

\* The default parameter value responsibleUserFiltering = 'unassignedOrMe'.
DefaultMode(mode) == IF mode = "undefined" THEN "unassignedOrMe" ELSE mode

\* Mutant: mode 'assigned' keeps only the tasks assigned to others.
filterTasksByResponsibleUser_AssignedFilters(tasks, resolvedAssigneeId, currentUserId, mode) ==
    IF Truthy(resolvedAssigneeId)
    THEN Filter(tasks, LAMBDA task : task.responsibleUid = resolvedAssigneeId)
    ELSE IF DefaultMode(mode) = "unassignedOrMe"
         THEN Filter(tasks, LAMBDA task :
                  ~Truthy(task.responsibleUid) \/ task.responsibleUid = currentUserId)
         ELSE IF DefaultMode(mode) = "assigned"
         THEN Filter(tasks, LAMBDA task :
                  Truthy(task.responsibleUid) /\ task.responsibleUid # currentUserId)
         ELSE tasks

\* Mutant: the mode is looked at before the resolved identity.
filterTasksByResponsibleUser_ModeFirst(tasks, resolvedAssigneeId, currentUserId, mode) ==
    IF DefaultMode(mode) = "all" THEN tasks
    ELSE IF Truthy(resolvedAssigneeId)
    THEN Filter(tasks, LAMBDA task : task.responsibleUid = resolvedAssigneeId)
    ELSE IF DefaultMode(mode) = "unassignedOrMe"
         THEN Filter(tasks, LAMBDA task :
                  ~Truthy(task.responsibleUid) \/ task.responsibleUid = currentUserId)
         ELSE tasks

filterTasksByResponsibleUser(tasks, resolvedAssigneeId, currentUserId, mode) ==
    IF Truthy(resolvedAssigneeId)
    THEN Filter(tasks, LAMBDA task : task.responsibleUid = resolvedAssigneeId)
    ELSE IF DefaultMode(mode) = "unassignedOrMe"
         THEN Filter(tasks, LAMBDA task :
                  ~Truthy(task.responsibleUid) \/ task.responsibleUid = currentUserId)
         ELSE tasks

buildResponsibleUserQueryFilter(resolvedAssigneeId, assigneeEmail, mode) ==
    IF Truthy(resolvedAssigneeId) /\ Truthy(assigneeEmail)
    THEN S_ASSIGNED_TO \o assigneeEmail
    ELSE IF DefaultMode(mode) = "unassignedOrMe" THEN S_NOT_ASSIGNED_TO_OTHERS
    ELSE IF DefaultMode(mode) = "assigned" THEN S_ASSIGNED_TO_OTHERS
    ELSE <<>>

\* Mutant: the joiner is inserted whatever the two sides are.
appendToQuery_AlwaysJoins(query, filterComponent) ==
    query \o S_AMP \o filterComponent

appendToQuery(query, filterComponent) ==
    IF Len(filterComponent) = 0 THEN query
    ELSE IF Len(query) = 0 THEN filterComponent
    ELSE query \o S_AMP \o filterComponent

-----------------------------------------------------------------------------
(* utils/labels: generateLabelsFilter (the label expression builder) *)

HasLabels(labels) == labels # UndefinedList /\ Len(labels) > 0

PrefixLabel(label) ==
    <<"@">> \o (IF StartsWith(label, <<"@">>) THEN Tail(label) ELSE label)

generateLabelsFilter(labels, labelsOperator) ==
    IF ~HasLabels(labels) THEN <<>>
    ELSE <<"(">>
         \o Join([i \in 1..Len(labels) |-> PrefixLabel(labels[i])],
                 IF labelsOperator = "and" THEN S_LABEL_AND ELSE S_LABEL_OR)
         \o <<")">>

-----------------------------------------------------------------------------
(* The upstream API and the values it hands back *)

Me == <<"1">>

OtherUser == <<"2">>

John == <<"7">>

JohnEmail == <<"j", "@", "x">>

\* mapTask keeps the fields of the upstream task; a mapped task of the model
\* carries the fields the tools read.
mapTask(task) ==
    [id |-> task.id, content |-> task.content, description |-> task.description,
     dueDate |-> task.due.date,
     labels |-> task.labels, responsibleUid |-> task.responsibleUid]

DueDate == [date |-> <<"2", "0", "2", "5", "-", "0", "8", "-", "2", "0">>]

\* A task without a due date: due?.date is undefined.
NoDue == [date |-> Undefined]

TaskUniverse ==
    { [id |-> <<"1">>, content |-> <<"A">>, description |-> <<>>, due |-> NoDue,
       labels |-> <<<<"w">>>>, responsibleUid |-> Me],
      [id |-> <<"2">>, content |-> <<"b">>, description |-> <<"a">>, due |-> DueDate,
       labels |-> <<>>, responsibleUid |-> Null],
      [id |-> <<"3">>, content |-> <<"a", "b">>, description |-> <<>>, due |-> DueDate,
       labels |-> <<<<"w">>, <<"u">>>>, responsibleUid |-> OtherUser],
      [id |-> <<"4">>, content |-> <<"b">>, description |-> <<>>, due |-> NoDue,
       labels |-> <<<<"u">>>>, responsibleUid |-> John] }

MaxPage == 2

RECURSIVE SeqsUpTo(_, _)
SeqsUpTo(S, n) ==
    IF n = 0 THEN {<<>>}
    ELSE LET shorter == SeqsUpTo(S, n - 1)
         IN  shorter \cup {Append(q, x) : q \in {r \in shorter : Len(r) = n - 1}, x \in S}

\* A page of the upstream listing endpoints: any tasks, in any order, with or
\* without a next cursor.
Pages ==
    [results : SeqsUpTo(TaskUniverse, MaxPage), nextCursor : {Null, <<"n">>}]

\* What an upstream call can fail with: the structured error of the SDK
\* (httpStatusCode and responseData) or any other error.
UpstreamErrors ==
    { [structured |-> TRUE, message |-> "Bad Request", httpStatusCode |-> 400,
       error |-> "Invalid search query", errorCode |-> 1, errorTag |-> "INVALID_SEARCH_QUERY"],
      [structured |-> TRUE, message |-> "Too Many Requests", httpStatusCode |-> 429,
       error |-> "Rate limited", errorCode |-> 35, errorTag |-> "LIMITS_REACHED"],
      [structured |-> FALSE, message |-> "Network error", httpStatusCode |-> 0,
       error |-> "", errorCode |-> 0, errorTag |-> ""] }

\* new Error(text) with the interpolated parts of its template literal.
NewError(text, parts, code) ==
    [structured |-> FALSE, message |-> text, parts |-> parts, code |-> code]

Throw(e) == [kind |-> "throw", error |-> e]

NoResult == [kind |-> "none"]

NoResponse == [kind |-> "none"]

NoUser == [id |-> Undefined]

NotResolved == [userId |-> Undefined, email |-> Undefined]

\* getToolOutput wraps the structured content of a successful invocation.
getToolOutput(structuredContent) ==
    [kind |-> "ok", structuredContent |-> structuredContent]

\* tool-helpers getTasksByFilter: the error translation of its catch block.
TranslateFilterError(e, query) ==
    IF ~e.structured THEN e
    ELSE IF e.errorTag = "INVALID_SEARCH_QUERY"
         THEN NewError("Invalid filter query: ${query}", <<query>>, 0)
         ELSE NewError("${error} (tag: ${errorTag}, code: ${errorCode})",
                       <<e.error, e.errorTag>>, e.errorCode)

\* tool-helpers getTasksByFilter: the request it sends.
FilterCall(query, limit, cursor) ==
    [op |-> "getTasksByFilter", query |-> query, limit |-> limit, cursor |-> cursor,
     lang |-> Undefined]

\* tool-helpers getTasksByFilter: its value on a page.
FilterHelperResult(page) ==
    [tasks |-> [i \in 1..Len(page.results) |-> mapTask(page.results[i])],
     nextCursor |-> page.nextCursor]

-----------------------------------------------------------------------------
(* find-tasks *)

\* The labels and labelsOperator arguments the tools are invoked with
\* (LabelsSchema).
LabelChoices ==
    { [labels |-> UndefinedList, labelsOperator |-> "undefined"],
      [labels |-> <<<<"w">>>>, labelsOperator |-> "undefined"],
      [labels |-> <<<<"@", "w">>, <<"u">>>>, labelsOperator |-> "and"],
      [labels |-> <<<<"w">>, <<"u">>>>, labelsOperator |-> "or"] }

\* Arguments find-tasks is invoked with (ArgsSchema).
FindTasksArgs ==
    { [searchText |-> searchText, projectId |-> projectId, sectionId |-> sectionId,
       parentId |-> parentId, responsibleUser |-> responsibleUser,
       responsibleUserFiltering |-> mode, limit |-> 10, cursor |-> cursor,
       labels |-> l.labels, labelsOperator |-> l.labelsOperator] :
        searchText \in {Undefined, <<"a">>, <<"B">>},
        projectId \in {Undefined, <<"p">>},
        sectionId \in {Undefined, <<"s">>},
        parentId \in {Undefined, <<"t">>},
        responsibleUser \in {Undefined, <<"j">>},
        mode \in {"undefined"} \cup RESPONSIBLE_USER_FILTERING,
        cursor \in {Undefined, <<"c">>},
        l \in LabelChoices }

\* The validation of find-tasks: no filter at all was supplied.
NoFilterProvided(a) ==
    /\ ~Truthy(a.searchText)
    /\ ~Truthy(a.projectId)
    /\ ~Truthy(a.sectionId)
    /\ ~Truthy(a.parentId)
    /\ ~Truthy(a.responsibleUser)
    /\ ~HasLabels(a.labels)

\* if (projectId || sectionId || parentId)
IsContainerSearch(a) ==
    Truthy(a.projectId) \/ Truthy(a.sectionId) \/ Truthy(a.parentId)

\* if (resolvedAssigneeId && !searchText && !hasLabels)
IsAssigneeOnly(a, r) ==
    Truthy(r.userId) /\ ~Truthy(a.searchText) /\ ~HasLabels(a.labels)

\* cursor ?? null
OrNull(x) == IF x = Undefined \/ x = Null THEN Null ELSE x

\* Mutant: the responsible-user fragment is appended to the query as well.
FindTasksQuery_WithResponsibleUser(a) ==
    appendToQuery(
        appendToQuery(IF Truthy(a.searchText) THEN S_SEARCH \o a.searchText ELSE <<>>,
                      generateLabelsFilter(a.labels, a.labelsOperator)),
        buildResponsibleUserQueryFilter(Undefined, Undefined, a.responsibleUserFiltering))

\* The query of the search-text / labels path.
FindTasksQuery(a) ==
    appendToQuery(IF Truthy(a.searchText) THEN S_SEARCH \o a.searchText ELSE <<>>,
                  generateLabelsFilter(a.labels, a.labelsOperator))

\* Mutant: the assignee-only branch is taken before the container branch.
FindTasksListCall_AssigneeFirst(a, r) ==
    IF IsAssigneeOnly(a, r)
    THEN [op |-> "getTasksByFilter", query |-> S_ASSIGNED_TO \o r.email,
          limit |-> a.limit, cursor |-> OrNull(a.cursor), lang |-> <<"e", "n">>]
    ELSE IF IsContainerSearch(a)
    THEN [op |-> "getTasks", limit |-> a.limit, cursor |-> OrNull(a.cursor),
          projectId |-> IF Truthy(a.projectId) THEN a.projectId ELSE Undefined,
          sectionId |-> IF Truthy(a.sectionId) THEN a.sectionId ELSE Undefined,
          parentId |-> IF Truthy(a.parentId) THEN a.parentId ELSE Undefined]
    ELSE FilterCall(FindTasksQuery(a), a.limit, a.cursor)

\* The one task-listing request find-tasks sends, by path.
FindTasksListCall(a, r) ==
    IF IsContainerSearch(a)
    THEN [op |-> "getTasks", limit |-> a.limit, cursor |-> OrNull(a.cursor),
          projectId |-> IF Truthy(a.projectId) THEN a.projectId ELSE Undefined,
          sectionId |-> IF Truthy(a.sectionId) THEN a.sectionId ELSE Undefined,
          parentId |-> IF Truthy(a.parentId) THEN a.parentId ELSE Undefined]
    ELSE IF IsAssigneeOnly(a, r)
    THEN [op |-> "getTasksByFilter", query |-> S_ASSIGNED_TO \o r.email,
          limit |-> a.limit, cursor |-> OrNull(a.cursor), lang |-> <<"e", "n">>]
    ELSE FilterCall(FindTasksQuery(a), a.limit, a.cursor)

\* The search-text filter of the container path.
MatchesSearchText(task, searchText) ==
    \/ Includes(ToLowerCase(task.content), ToLowerCase(searchText))
    \/ /\ task.description # Undefined
       /\ task.description # Null
       /\ Includes(ToLowerCase(task.description), ToLowerCase(searchText))

\* The label filter of the container path.
MatchesLabels(task, labels, labelsOperator) ==
    IF labelsOperator = "and"
    THEN \A i \in 1..Len(labels) : ArrayIncludes(task.labels, labels[i])
    ELSE \E i \in 1..Len(labels) : ArrayIncludes(task.labels, labels[i])

\* Mutant: the page is walked from its last task to its first.
ContainerTasks_Reversed(a, r, user, page) ==
    LET n == Len(page.results)
        mappedTasks == [i \in 1..n |-> mapTask(page.results[n + 1 - i])]
        bySearch == IF Truthy(a.searchText)
                    THEN Filter(mappedTasks, LAMBDA t : MatchesSearchText(t, a.searchText))
                    ELSE mappedTasks
        byUser == filterTasksByResponsibleUser(bySearch, r.userId, user.id,
                                               a.responsibleUserFiltering)
    IN  IF HasLabels(a.labels)
        THEN Filter(byUser, LAMBDA t : MatchesLabels(t, a.labels, a.labelsOperator))
        ELSE byUser

\* The tasks the container path returns for an upstream page.
ContainerTasks(a, r, user, page) ==
    LET mappedTasks == [i \in 1..Len(page.results) |-> mapTask(page.results[i])]
        bySearch == IF Truthy(a.searchText)
                    THEN Filter(mappedTasks, LAMBDA t : MatchesSearchText(t, a.searchText))
                    ELSE mappedTasks
        byUser == filterTasksByResponsibleUser(bySearch, r.userId, user.id,
                                               a.responsibleUserFiltering)
    IN  IF HasLabels(a.labels)
        THEN Filter(byUser, LAMBDA t : MatchesLabels(t, a.labels, a.labelsOperator))
        ELSE byUser

\* Mutant: the search-text / labels path returns the page as the filter
\* endpoint gave it.
FindTasksTasks_NoLocalFilter(a, r, user, page) ==
    IF IsContainerSearch(a) THEN ContainerTasks(a, r, user, page)
    ELSE [i \in 1..Len(page.results) |-> mapTask(page.results[i])]

\* The tasks find-tasks returns for an upstream page, by path.
FindTasksTasks(a, r, user, page) ==
    IF IsContainerSearch(a) THEN ContainerTasks(a, r, user, page)
    ELSE IF IsAssigneeOnly(a, r)
    THEN [i \in 1..Len(page.results) |-> mapTask(page.results[i])]
    ELSE filterTasksByResponsibleUser(FilterHelperResult(page).tasks, r.userId, user.id,
                                      a.responsibleUserFiltering)

\* Mutant: totalCount counts the upstream page instead of the tasks returned.
FindTasksOutput_CountsPage(a, r, user, page) ==
    LET tasks == FindTasksTasks(a, r, user, page)
    IN  getToolOutput([tasks |-> tasks,
                       nextCursor |-> page.nextCursor,
                       totalCount |-> Len(page.results),
                       hasMore |-> ToBoolean(page.nextCursor),
                       appliedFilters |-> a])

\* structuredContent of a successful find-tasks invocation.
FindTasksOutput(a, r, user, page) ==
    LET tasks == FindTasksTasks(a, r, user, page)
    IN  getToolOutput([tasks |-> tasks,
                       nextCursor |-> page.nextCursor,
                       totalCount |-> Len(tasks),
                       hasMore |-> ToBoolean(page.nextCursor),
                       appliedFilters |-> a])

\* What find-tasks throws when its task-listing call fails with e: only the
\* search-text / labels path goes through the translating helper.
FindTasksListError(a, r, e) ==
    IF IsContainerSearch(a) \/ IsAssigneeOnly(a, r) THEN e
    ELSE TranslateFilterError(e, FindTasksQuery(a))

\* execute is entered: the first statement sends client.getUser().
FindTasksInvoke ==
    /\ pc = "idle"
    /\ \E a \in FindTasksArgs :
         /\ tool' = "find-tasks"
         /\ args' = a
         /\ calls' = <<[op |-> "getUser"]>>
         /\ pc' = "awaitUser"
    /\ UNCHANGED <<todoistUser, resolved, result, tz, serverVars, response>>

\* client.getUser() fails: execute rejects with that error.
FindTasksGetUserFails ==
    /\ tool = "find-tasks" /\ pc = "awaitUser"
    /\ \E e \in UpstreamErrors : result' = Throw(e)
    /\ pc' = "done"
    /\ UNCHANGED <<tool, args, calls, todoistUser, resolved, tz, serverVars, response>>

\* client.getUser() returns: validation, then resolveResponsibleUser, which
\* asks the collaborator directory only when responsibleUser is given.
FindTasksGetUserReturns ==
    /\ tool = "find-tasks" /\ pc = "awaitUser"
    /\ todoistUser' = [id |-> Me]
    /\ IF NoFilterProvided(args)
       THEN /\ result' = Throw(NewError(MSG_MISSING_FILTER, <<>>, 0))
            /\ pc' = "done"
            /\ UNCHANGED <<calls, resolved>>
       ELSE IF ~Truthy(args.responsibleUser)
       THEN /\ resolved' = NotResolved
            /\ calls' = Append(calls, FindTasksListCall(args, NotResolved))
            /\ pc' = "awaitTasks"
            /\ UNCHANGED result
       ELSE /\ calls' = Append(calls, [op |-> "resolveUserNameToId",
                                       input |-> args.responsibleUser])
            /\ pc' = "awaitResolve"
            /\ UNCHANGED <<resolved, result>>
    /\ UNCHANGED <<tool, args, tz, serverVars, response>>

MSG_USER_NOT_FOUND ==
    "Could not find user: \"${responsibleUser}\". Make sure the user is a collaborator on a shared project."

\* Mutant: the rejection does not say which input could not be resolved.
FindTasksResolveFails_Unnamed ==
    /\ tool = "find-tasks" /\ pc = "awaitResolve"
    /\ \/ \E e \in UpstreamErrors : result' = Throw(e)
       \/ result' = Throw(NewError(MSG_USER_NOT_FOUND, <<>>, 0))
    /\ pc' = "done"
    /\ UNCHANGED <<tool, args, calls, todoistUser, resolved, tz, serverVars, response>>

\* The collaborator lookup fails or finds nobody: execute rejects.
FindTasksResolveFails ==
    /\ tool = "find-tasks" /\ pc = "awaitResolve"
    /\ \/ \E e \in UpstreamErrors : result' = Throw(e)
       \/ result' = Throw(NewError(MSG_USER_NOT_FOUND, <<args.responsibleUser>>, 0))
    /\ pc' = "done"
    /\ UNCHANGED <<tool, args, calls, todoistUser, resolved, tz, serverVars, response>>

\* The collaborator lookup finds the user: the task-listing call is sent.
FindTasksResolveReturns ==
    /\ tool = "find-tasks" /\ pc = "awaitResolve"
    /\ resolved' = [userId |-> John, email |-> JohnEmail]
    /\ calls' = Append(calls, FindTasksListCall(args, resolved'))
    /\ pc' = "awaitTasks"
    /\ UNCHANGED <<tool, args, todoistUser, result, tz, serverVars, response>>

\* The task-listing call fails: execute rejects.
FindTasksListFails ==
    /\ tool = "find-tasks" /\ pc = "awaitTasks"
    /\ \E e \in UpstreamErrors :
         /\ response' = [kind |-> "error", error |-> e]
         /\ result' = Throw(FindTasksListError(args, resolved, e))
    /\ pc' = "done"
    /\ UNCHANGED <<tool, args, calls, todoistUser, resolved, tz, serverVars>>

\* The task-listing call returns a page: the tool output is built.
FindTasksListReturns ==
    /\ tool = "find-tasks" /\ pc = "awaitTasks"
    /\ \E page \in Pages :
         /\ response' = [kind |-> "page", page |-> page]
         /\ result' = FindTasksOutput(args, resolved, todoistUser, page)
    /\ pc' = "done"
    /\ UNCHANGED <<tool, args, calls, todoistUser, resolved, tz, serverVars>>

-----------------------------------------------------------------------------
(* Dates: new Date(string), date-fns addDays and formatISO *)

DigitChars == <<"0", "1", "2", "3", "4", "5", "6", "7", "8", "9">>

DigitValue(c) == (CHOOSE i \in 1..10 : DigitChars[i] = c) - 1

\* The number a run of decimal digits denotes.
RECURSIVE ParseDigits(_)
ParseDigits(s) ==
    IF Len(s) = 0 THEN 0
    ELSE 10 * ParseDigits(SubSeq(s, 1, Len(s) - 1)) + DigitValue(s[Len(s)])

IsLeapYear(y) == (y % 4 = 0 /\ y % 100 # 0) \/ y % 400 = 0

DaysInMonth(y, m) ==
    IF m = 2 THEN (IF IsLeapYear(y) THEN 29 ELSE 28)
    ELSE IF m \in {4, 6, 9, 11} THEN 30 ELSE 31

NextDay(d) ==
    IF d.day < DaysInMonth(d.year, d.month) THEN [d EXCEPT !.day = d.day + 1]
    ELSE IF d.month < 12 THEN [year |-> d.year, month |-> d.month + 1, day |-> 1]
    ELSE [year |-> d.year + 1, month |-> 1, day |-> 1]

PrevDay(d) ==
    IF d.day > 1 THEN [d EXCEPT !.day = d.day - 1]
    ELSE IF d.month > 1
    THEN [year |-> d.year, month |-> d.month - 1, day |-> DaysInMonth(d.year, d.month - 1)]
    ELSE [year |-> d.year - 1, month |-> 12, day |-> 31]

\* new Date('YYYY-MM-DD'): a date-only ISO string is midnight UTC of that day.
\* The Date is kept as the calendar fields its local getters return in a
\* process whose zone is `zone` hours from UTC: midnight UTC is still the
\* previous local day west of Greenwich.
NewDate(s, zone) ==
    LET utc == [year |-> ParseDigits(SubSeq(s, 1, 4)),
                month |-> ParseDigits(SubSeq(s, 6, 7)),
                day |-> ParseDigits(SubSeq(s, 9, 10))]
    IN  IF zone < 0 THEN PrevDay(utc) ELSE utc

\* date-fns addDays: setDate(getDate() + amount) on the local fields.
RECURSIVE addDays(_, _)
addDays(date, amount) ==
    IF amount = 0 THEN date ELSE addDays(NextDay(date), amount - 1)

\* date-fns addLeadingZeros
RECURSIVE addLeadingZeros(_, _)
addLeadingZeros(number, targetLength) ==
    IF targetLength = 0 THEN <<>>
    ELSE addLeadingZeros(number \div 10, targetLength - 1) \o <<DigitChars[(number % 10) + 1]>>

\* date-fns formatISO(date, { representation: 'date' }): the local fields.
formatISO(date) ==
    addLeadingZeros(date.year, 4) \o <<"-">> \o addLeadingZeros(date.month, 2)
        \o <<"-">> \o addLeadingZeros(date.day, 2)

-----------------------------------------------------------------------------
(* find-tasks-by-date *)

MaxDaysCount == 30

\* Offsets from UTC, in hours, of the zones the process may run in.
TimeZones == {-8, 0, 9}

StartDates ==
    { <<"2", "0", "2", "5", "-", "0", "8", "-", "2", "0">>,
      <<"2", "0", "2", "4", "-", "0", "2", "-", "2", "8">>,
      <<"2", "0", "2", "5", "-", "0", "1", "-", "0", "1">> }

\* Arguments find-tasks-by-date is invoked with (ArgsSchema).
FindTasksByDateArgs ==
    { [startDate |-> startDate, overdueOption |-> overdueOption, daysCount |-> daysCount,
       limit |-> 50, cursor |-> cursor, responsibleUserFiltering |-> mode,
       labels |-> l.labels, labelsOperator |-> l.labelsOperator] :
        startDate \in {Undefined, S_TODAY} \cup StartDates,
        overdueOption \in {"undefined", "overdue-only", "include-overdue", "exclude-overdue"},
        daysCount \in {1, 2, MaxDaysCount},
        cursor \in {Undefined, <<"c">>},
        mode \in {"undefined"} \cup RESPONSIBLE_USER_FILTERING,
        l \in LabelChoices }

\* if (!args.startDate && args.overdueOption !== 'overdue-only')
NoDateProvided(a) == ~Truthy(a.startDate) /\ a.overdueOption # "overdue-only"

\* Mutant: startDate 'today' is looked at before overdue-only.
DateFragment_TodayFirst(a, zone) ==
    IF a.startDate = S_TODAY
    THEN (IF a.overdueOption = "exclude-overdue" THEN S_TODAY ELSE S_TODAY_OR_OVERDUE)
    ELSE IF a.overdueOption = "overdue-only" THEN S_OVERDUE
    ELSE IF Truthy(a.startDate)
    THEN LET endDate == addDays(NewDate(a.startDate, zone), a.daysCount)
             endDateStr == formatISO(endDate)
         IN  S_DUE_AFTER \o a.startDate \o S_OR_DUE \o a.startDate
                 \o S_DUE_BEFORE \o endDateStr
    ELSE <<>>

\* The date fragment the query starts with.
DateFragment(a, zone) ==
    IF a.overdueOption = "overdue-only" THEN S_OVERDUE
    ELSE IF a.startDate = S_TODAY
    THEN (IF a.overdueOption = "exclude-overdue" THEN S_TODAY ELSE S_TODAY_OR_OVERDUE)
    ELSE IF Truthy(a.startDate)
    THEN LET endDate == addDays(NewDate(a.startDate, zone), a.daysCount)
             endDateStr == formatISO(endDate)
         IN  S_DUE_AFTER \o a.startDate \o S_OR_DUE \o a.startDate
                 \o S_DUE_BEFORE \o endDateStr
    ELSE <<>>

\* if (query.length > 0) query += ' & '; query += part
AppendWithAmp(query, part) ==
    (IF Len(query) > 0 THEN query \o S_AMP ELSE query) \o part

\* The labels step: the fragment of generateLabelsFilter in parentheses.
WithLabels(query, a) ==
    LET labelsFilter == generateLabelsFilter(a.labels, a.labelsOperator)
    IN  IF Len(labelsFilter) > 0
        THEN AppendWithAmp(query, <<"(">> \o labelsFilter \o <<")">>)
        ELSE query

\* Mutant: an omitted mode is not defaulted to 'unassignedOrMe'.
WithResponsibleUser_NoDefault(query, a) ==
    IF a.responsibleUserFiltering = "unassignedOrMe"
    THEN AppendWithAmp(query, S_NOT_ASSIGNED_TO_OTHERS)
    ELSE IF a.responsibleUserFiltering = "assigned"
    THEN AppendWithAmp(query, S_ASSIGNED_TO_OTHERS)
    ELSE query

\* The responsible-user step.
WithResponsibleUser(query, a) ==
    LET filteringMode == IF a.responsibleUserFiltering = "undefined"
                         THEN "unassignedOrMe" ELSE a.responsibleUserFiltering
    IN  IF filteringMode = "unassignedOrMe"
        THEN AppendWithAmp(query, S_NOT_ASSIGNED_TO_OTHERS)
        ELSE IF filteringMode = "assigned"
        THEN AppendWithAmp(query, S_ASSIGNED_TO_OTHERS)
        ELSE query

\* The query find-tasks-by-date sends.
FindTasksByDateQuery(a, zone) ==
    WithResponsibleUser(WithLabels(DateFragment(a, zone), a), a)

\* structuredContent of a successful find-tasks-by-date invocation.
FindTasksByDateOutput(a, page) ==
    LET filteredTasks == FilterHelperResult(page).tasks
    IN  getToolOutput([tasks |-> filteredTasks,
                       nextCursor |-> FilterHelperResult(page).nextCursor,
                       totalCount |-> Len(filteredTasks),
                       hasMore |-> ToBoolean(FilterHelperResult(page).nextCursor),
                       appliedFilters |-> a])

\* execute is entered: validation, then the query is built and sent.
FindTasksByDateInvoke ==
    /\ pc = "idle"
    /\ \E a \in FindTasksByDateArgs :
         /\ tool' = "find-tasks-by-date"
         /\ args' = a
         /\ IF NoDateProvided(a)
            THEN /\ result' = Throw(NewError(MSG_MISSING_DATE, <<>>, 0))
                 /\ calls' = <<>>
                 /\ pc' = "done"
            ELSE /\ calls' = <<FilterCall(FindTasksByDateQuery(a, tz), a.limit, a.cursor)>>
                 /\ pc' = "awaitTasks"
                 /\ UNCHANGED result
    /\ UNCHANGED <<todoistUser, resolved, tz, serverVars, response>>

\* The filter call fails: execute rejects with the translated error.
FindTasksByDateListFails ==
    /\ tool = "find-tasks-by-date" /\ pc = "awaitTasks"
    /\ \E e \in UpstreamErrors :
         /\ response' = [kind |-> "error", error |-> e]
         /\ result' = Throw(TranslateFilterError(e, calls[1].query))
    /\ pc' = "done"
    /\ UNCHANGED <<tool, args, calls, todoistUser, resolved, tz, serverVars>>

\* The filter call returns a page: the tool output is built.
FindTasksByDateListReturns ==
    /\ tool = "find-tasks-by-date" /\ pc = "awaitTasks"
    /\ \E page \in Pages :
         /\ response' = [kind |-> "page", page |-> page]
         /\ result' = FindTasksByDateOutput(args, page)
    /\ pc' = "done"
    /\ UNCHANGED <<tool, args, calls, todoistUser, resolved, tz, serverVars>>

-----------------------------------------------------------------------------
(* find-activity *)

\* mapActivityEvent keeps the fields of the upstream event.
mapActivityEvent(event) ==
    [id |-> event.id, objectType |-> event.objectType, objectId |-> event.objectId,
     eventType |-> event.eventType, eventDate |-> event.eventDate,
     parentProjectId |-> event.parentProjectId, parentItemId |-> event.parentItemId,
     initiatorId |-> event.initiatorId, extraData |-> event.extraData]

EventUniverse ==
    { [id |-> <<"1">>, objectType |-> "task", objectId |-> <<"1">>,
       eventType |-> "completed", eventDate |-> <<"d", "1">>,
       parentProjectId |-> <<"p">>, parentItemId |-> Null, initiatorId |-> Me,
       extraData |-> [content |-> <<"A">>]],
      [id |-> <<"2">>, objectType |-> "project", objectId |-> <<"p">>,
       eventType |-> "added", eventDate |-> <<"d", "2">>,
       parentProjectId |-> Null, parentItemId |-> Null, initiatorId |-> Null,
       extraData |-> [content |-> <<>>]],
      [id |-> <<"3">>, objectType |-> "task", objectId |-> <<"3">>,
       eventType |-> "updated", eventDate |-> <<"d", "3">>,
       parentProjectId |-> <<"p">>, parentItemId |-> <<"1">>, initiatorId |-> OtherUser,
       extraData |-> [content |-> <<"a", "b">>]] }

\* A page of the activity log endpoint.
ActivityPages ==
    [results : SeqsUpTo(EventUniverse, MaxPage), nextCursor : {Null, <<"n">>}]

\* Arguments find-activity is invoked with (ArgsSchema).
FindActivityArgs ==
    [objectType : {"undefined", "task"},
     objectId : {Undefined, <<"3">>},
     eventType : {"undefined", "completed"},
     projectId : {Undefined, <<"p">>},
     taskId : {Undefined, <<"1">>},
     initiatorId : {Undefined, Me},
     limit : {20},
     cursor : {Undefined, <<"c">>}]

\* Mutant: every request asks for the first page.
FindActivityCall_FreshCursor(a) ==
    [op |-> "getActivityLogs", limit |-> a.limit, cursor |-> Null,
     objectType |-> a.objectType,
     objectId |-> IF Truthy(a.objectId) THEN a.objectId ELSE Undefined,
     eventType |-> a.eventType,
     parentProjectId |-> IF Truthy(a.projectId) THEN a.projectId ELSE Undefined,
     parentItemId |-> IF Truthy(a.taskId) THEN a.taskId ELSE Undefined,
     initiatorId |-> IF Truthy(a.initiatorId) THEN a.initiatorId ELSE Undefined]

\* apiArgs: limit and cursor always, each filter only when it is truthy.
FindActivityCall(a) ==
    [op |-> "getActivityLogs", limit |-> a.limit, cursor |-> OrNull(a.cursor),
     objectType |-> a.objectType,
     objectId |-> IF Truthy(a.objectId) THEN a.objectId ELSE Undefined,
     eventType |-> a.eventType,
     parentProjectId |-> IF Truthy(a.projectId) THEN a.projectId ELSE Undefined,
     parentItemId |-> IF Truthy(a.taskId) THEN a.taskId ELSE Undefined,
     initiatorId |-> IF Truthy(a.initiatorId) THEN a.initiatorId ELSE Undefined]

\* structuredContent of a successful find-activity invocation.
FindActivityOutput(a, page) ==
    LET events == [i \in 1..Len(page.results) |-> mapActivityEvent(page.results[i])]
    IN  getToolOutput([events |-> events,
                       nextCursor |-> page.nextCursor,
                       totalCount |-> Len(events),
                       hasMore |-> ToBoolean(page.nextCursor),
                       appliedFilters |-> a])

\* execute is entered: the API arguments are built and the log is requested.
FindActivityInvoke ==
    /\ pc = "idle"
    /\ \E a \in FindActivityArgs :
         /\ tool' = "find-activity"
         /\ args' = a
         /\ calls' = <<FindActivityCall(a)>>
    /\ pc' = "awaitEvents"
    /\ UNCHANGED <<todoistUser, resolved, response, result, tz, serverVars>>

\* Mutant: a failed request is sent once more.
FindActivityFails_Retries ==
    /\ tool = "find-activity" /\ pc = "awaitEvents"
    /\ \E e \in UpstreamErrors : response' = [kind |-> "error", error |-> e]
    /\ calls' = Append(calls, calls[1])
    /\ UNCHANGED <<tool, pc, args, todoistUser, resolved, result, tz, serverVars>>

\* client.getActivityLogs fails: execute rejects with that error.
FindActivityFails ==
    /\ tool = "find-activity" /\ pc = "awaitEvents"
    /\ \E e \in UpstreamErrors :
         /\ response' = [kind |-> "error", error |-> e]
         /\ result' = Throw(e)
    /\ pc' = "done"
    /\ UNCHANGED <<tool, args, calls, todoistUser, resolved, tz, serverVars>>

\* client.getActivityLogs returns a page: the tool output is built.
FindActivityReturns ==
    /\ tool = "find-activity" /\ pc = "awaitEvents"
    /\ \E page \in ActivityPages :
         /\ response' = [kind |-> "page", page |-> page]
         /\ result' = FindActivityOutput(args, page)
    /\ pc' = "done"
    /\ UNCHANGED <<tool, args, calls, todoistUser, resolved, tz, serverVars>>

-----------------------------------------------------------------------------
(* search and fetch: composite IDs, projects, the text envelope *)

S_TASK == <<"t", "a", "s", "k">>

S_PROJECT == <<"p", "r", "o", "j", "e", "c", "t">>

S_COLON == <<":">>

\* Template literals of the fetch text builder, each one token of the text.
S_DESCRIPTION == <<"\n\nDescription: ">>

S_DUE == <<"\nDue: ">>

S_LABELS == <<"\nLabels: ">>

S_COMMA == <<",", " ">>

S_SHARED == <<"\n\nShared project">>

S_FAVORITE == <<"\nFavorite: Yes">>

\* String.prototype.split(separator): every piece between separators.
RECURSIVE Split(_, _)
Split(s, sep) ==
    IF \A i \in 1..Len(s) : s[i] # sep THEN <<s>>
    ELSE LET i == CHOOSE k \in 1..Len(s) :
                      s[k] = sep /\ \A j \in 1..(k - 1) : s[j] # sep
         IN  <<SubSeq(s, 1, i - 1)>> \o Split(SubSeq(s, i + 1, Len(s)), sep)

\* String.prototype.split(separator, limit): the first limit pieces of the
\* full split; what follows them is dropped.
SplitLimit(s, sep, limit) ==
    LET all == Split(s, sep)
    IN  SubSeq(all, 1, IF Len(all) < limit THEN Len(all) ELSE limit)

\* buildTodoistUrl
buildTodoistUrl(type, id) == <<"https://app.todoist.com/app/">> \o type \o <<"/">> \o id

\* mapProject; personal stands for 'inboxProject' in project.
mapProject(project) ==
    [id |-> project.id, name |-> project.name, color |-> project.color,
     isFavorite |-> project.isFavorite, isShared |-> project.isShared,
     parentId |-> IF project.personal THEN OrNull(project.parentId) ELSE Null,
     inboxProject |-> IF project.personal THEN project.inboxProject ELSE FALSE,
     viewStyle |-> project.viewStyle]

ProjectUniverse ==
    { [id |-> <<"5">>, name |-> <<"A", "b">>, color |-> "blue", isFavorite |-> FALSE,
       isShared |-> FALSE, personal |-> TRUE, parentId |-> Undefined,
       inboxProject |-> TRUE, viewStyle |-> "list"],
      [id |-> <<"6">>, name |-> <<"x">>, color |-> "red", isFavorite |-> TRUE,
       isShared |-> TRUE, personal |-> FALSE, parentId |-> Undefined,
       inboxProject |-> FALSE, viewStyle |-> "board"],
      [id |-> <<"8">>, name |-> <<"c", "b", "a">>, color |-> "red", isFavorite |-> TRUE,
       isShared |-> FALSE, personal |-> TRUE, parentId |-> <<"5">>,
       inboxProject |-> FALSE, viewStyle |-> "list"] }

\* A page of client.getProjects.
ProjectPages ==
    [results : SeqsUpTo(ProjectUniverse, MaxPage), nextCursor : {Null}]

\* Mutant: every caught error is reported as unknown.
ErrorMessage_Unknown(e) ==
    [message |-> "An unknown error occurred", parts |-> <<>>]

\* The message a caught error carries, with the parts interpolated into it.
ErrorMessage(e) ==
    [message |-> e.message, parts |-> IF "parts" \in DOMAIN e THEN e.parts ELSE <<>>]

\* getErrorOutput: one text item holding the message, flagged isError.
getErrorOutput(message) ==
    [content |-> <<[type |-> "text", text |-> message]>>, isError |-> TRUE]

\* JSON.stringify: the document that encodes value.
JSONStringify(value) == [json |-> value]

\* { content: [{ type: 'text', text: jsonText }] }
TextOutput(value) ==
    [content |-> <<[type |-> "text", text |-> JSONStringify(value)]>>]

Return(v) == [kind |-> "return", value |-> v]

Pending == [kind |-> "pending"]

-----------------------------------------------------------------------------
(* search *)

\* Arguments search is invoked with (ArgsSchema: a non-empty query).
SearchArgs == [query : {<<"a">>, <<"B">>, <<"a", "b">>}]

\* Mutant: the project listing is sent only after the tasks are in.
SearchCalls_TasksFirst(a) ==
    <<FilterCall(S_SEARCH \o a.query, 100, Undefined)>>

\* The two requests search dispatches together.
SearchCalls(a) ==
    <<FilterCall(S_SEARCH \o a.query, 100, Undefined), [op |-> "getProjects", limit |-> 100]>>

\* Mutant: project names are matched case-sensitively.
SearchResults_CaseSensitive(query, tasks, projects) ==
    LET matchingProjects == Filter(projects, LAMBDA project : Includes(project.name, query))
    IN  [i \in 1..Len(tasks) |->
            [id |-> S_TASK \o S_COLON \o tasks[i].id, title |-> tasks[i].content,
             url |-> buildTodoistUrl(<<"task">>, tasks[i].id)]]
        \o [i \in 1..Len(matchingProjects) |->
            [id |-> S_PROJECT \o S_COLON \o matchingProjects[i].id,
             title |-> matchingProjects[i].name,
             url |-> buildTodoistUrl(<<"project">>, matchingProjects[i].id)]]

\* The results array: every task of the filter result, then the projects whose
\* lower-cased name includes the lower-cased query.
SearchResults(query, tasks, projects) ==
    LET searchLower == ToLowerCase(query)
        matchingProjects ==
            Filter(projects, LAMBDA project : Includes(ToLowerCase(project.name), searchLower))
    IN  [i \in 1..Len(tasks) |->
            [id |-> S_TASK \o S_COLON \o tasks[i].id, title |-> tasks[i].content,
             url |-> buildTodoistUrl(<<"task">>, tasks[i].id)]]
        \o [i \in 1..Len(matchingProjects) |->
            [id |-> S_PROJECT \o S_COLON \o matchingProjects[i].id,
             title |-> matchingProjects[i].name,
             url |-> buildTodoistUrl(<<"project">>, matchingProjects[i].id)]]

\* The envelope search returns once both results are in.
SearchOutput(a, tasksPage, projectsPage) ==
    TextOutput([results |-> SearchResults(a.query, FilterHelperResult(tasksPage).tasks,
                                          projectsPage.results)])

\* execute is entered: both requests are sent before either is awaited.
SearchInvoke ==
    /\ pc = "idle"
    /\ \E a \in SearchArgs :
         /\ tool' = "search"
         /\ args' = a
         /\ calls' = SearchCalls(a)
    /\ response' = [kind |-> "pair", tasks |-> Pending, projects |-> Pending]
    /\ pc' = "awaitBoth"
    /\ UNCHANGED <<todoistUser, resolved, result, tz, serverVars>>

\* The filter request returns a page; with the projects in, results are built.
SearchTasksReturn ==
    /\ tool = "search" /\ pc = "awaitBoth" /\ response.tasks = Pending
    /\ \E page \in Pages :
         /\ response' = [response EXCEPT !.tasks = [kind |-> "page", page |-> page]]
         /\ IF response.projects = Pending
            THEN UNCHANGED <<pc, result>>
            ELSE /\ result' = Return(SearchOutput(args, page, response.projects.page))
                 /\ pc' = "done"
    /\ UNCHANGED <<tool, args, calls, todoistUser, resolved, tz, serverVars>>

\* The filter request fails: Promise.all rejects with the helper's error,
\* which the catch block turns into the error envelope.
SearchTasksFail ==
    /\ tool = "search" /\ pc = "awaitBoth" /\ response.tasks = Pending
    /\ \E e \in UpstreamErrors :
         /\ response' = [response EXCEPT !.tasks = [kind |-> "error", error |-> e]]
         /\ result' = Return(getErrorOutput(
                          ErrorMessage(TranslateFilterError(e, calls[1].query))))
    /\ pc' = "done"
    /\ UNCHANGED <<tool, args, calls, todoistUser, resolved, tz, serverVars>>

\* The project listing returns; with the tasks in, results are built.
SearchProjectsReturn ==
    /\ tool = "search" /\ pc = "awaitBoth" /\ response.projects = Pending
    /\ \E page \in ProjectPages :
         /\ response' = [response EXCEPT !.projects = [kind |-> "page", page |-> page]]
         /\ IF response.tasks = Pending
            THEN UNCHANGED <<pc, result>>
            ELSE /\ result' = Return(SearchOutput(args, response.tasks.page, page))
                 /\ pc' = "done"
    /\ UNCHANGED <<tool, args, calls, todoistUser, resolved, tz, serverVars>>

\* The project listing fails: Promise.all rejects, the catch block answers.
SearchProjectsFail ==
    /\ tool = "search" /\ pc = "awaitBoth" /\ response.projects = Pending
    /\ \E e \in UpstreamErrors :
         /\ response' = [response EXCEPT !.projects = [kind |-> "error", error |-> e]]
         /\ result' = Return(getErrorOutput(ErrorMessage(e)))
    /\ pc' = "done"
    /\ UNCHANGED <<tool, args, calls, todoistUser, resolved, tz, serverVars>>

-----------------------------------------------------------------------------
(* fetch *)

MSG_INVALID_ID ==
    "Invalid ID format. Expected \"task:{id}\" or \"project:{id}\". Example: \"task:8485093748\" or \"project:6cfCcrrCFg2xP94Q\""

\* Composite IDs fetch is invoked with (ArgsSchema: a non-empty string): a
\* prefix, then nothing or a colon and a remainder.
IdPrefixes ==
    {S_TASK, S_PROJECT, <<>>, <<"s">>, S_TASK \o <<"s">>, <<"T", "a", "s", "k">>}

IdRemainders ==
    {<<>>, <<"1">>, <<"4", "2">>, <<"a", "b">>, <<"1", ":", "2">>, <<":", "1">>, <<"1", ":">>}

FetchArgs ==
    { [id |-> id] :
        id \in ({prefix : prefix \in IdPrefixes}
                    \cup {prefix \o S_COLON \o rest :
                              prefix \in IdPrefixes, rest \in IdRemainders})
               \ {<<>>} }

\* A task with every optional field absent, next to the tasks of the listings.
BareTask ==
    [id |-> <<"9">>, content |-> <<"c">>, description |-> <<>>, due |-> NoDue,
     labels |-> <<>>, responsibleUid |-> Null]

\* A task with a description, a due date and labels.
FullTask ==
    [id |-> <<"9", "0">>, content |-> <<"d">>, description |-> <<"e">>, due |-> DueDate,
     labels |-> <<<<"w">>, <<"u">>>>, responsibleUid |-> Me]

FetchableTasks == TaskUniverse \cup {BareTask, FullTask}

\* const [type, objectId] = id.split(':', 2)
FetchType(id) == SplitLimit(id, ":", 2)[1]

FetchObjectId(id) ==
    LET pieces == SplitLimit(id, ":", 2)
    IN  IF Len(pieces) >= 2 THEN pieces[2] ELSE Undefined

\* Mutant: only the type prefix is validated.
FetchInvalidId_TypeOnly(id) ==
    FetchType(id) # S_TASK /\ FetchType(id) # S_PROJECT

\* if (!objectId || (type !== 'task' && type !== 'project'))
FetchInvalidId(id) ==
    \/ ~Truthy(FetchObjectId(id))
    \/ FetchType(id) # S_TASK /\ FetchType(id) # S_PROJECT

\* Mutant: the sections are appended labels first.
FetchTaskText_LabelsFirst(mappedTask) ==
    mappedTask.content
        \o (IF Len(mappedTask.labels) > 0
            THEN S_LABELS \o Join(mappedTask.labels, S_COMMA) ELSE <<>>)
        \o (IF Truthy(mappedTask.description)
            THEN S_DESCRIPTION \o mappedTask.description ELSE <<>>)
        \o (IF Truthy(mappedTask.dueDate) THEN S_DUE \o mappedTask.dueDate ELSE <<>>)

\* textParts.join('') for a task.
FetchTaskText(mappedTask) ==
    mappedTask.content
        \o (IF Truthy(mappedTask.description)
            THEN S_DESCRIPTION \o mappedTask.description ELSE <<>>)
        \o (IF Truthy(mappedTask.dueDate) THEN S_DUE \o mappedTask.dueDate ELSE <<>>)
        \o (IF Len(mappedTask.labels) > 0
            THEN S_LABELS \o Join(mappedTask.labels, S_COMMA) ELSE <<>>)

\* The document fetch builds for a task; metadata holds the remaining mapped
\* fields as they are.
FetchTaskResult(task) ==
    LET mappedTask == mapTask(task)
    IN  [id |-> S_TASK \o S_COLON \o mappedTask.id,
         title |-> mappedTask.content,
         text |-> FetchTaskText(mappedTask),
         url |-> buildTodoistUrl(<<"task">>, mappedTask.id),
         metadata |-> [responsibleUid |-> mappedTask.responsibleUid]]

\* The document fetch builds for a project.
FetchProjectResult(project) ==
    LET mappedProject == mapProject(project)
    IN  [id |-> S_PROJECT \o S_COLON \o mappedProject.id,
         title |-> mappedProject.name,
         text |-> mappedProject.name
                      \o (IF mappedProject.isShared THEN S_SHARED ELSE <<>>)
                      \o (IF mappedProject.isFavorite THEN S_FAVORITE ELSE <<>>),
         url |-> buildTodoistUrl(<<"project">>, mappedProject.id),
         metadata |-> [color |-> mappedProject.color,
                       isFavorite |-> mappedProject.isFavorite,
                       isShared |-> mappedProject.isShared,
                       parentId |-> mappedProject.parentId,
                       inboxProject |-> mappedProject.inboxProject,
                       viewStyle |-> mappedProject.viewStyle]]

\* execute is entered: the ID is parsed; a bad ID is answered at once with the
\* error envelope, a good one sends getTask or getProject.
FetchInvoke ==
    /\ pc = "idle"
    /\ \E a \in FetchArgs :
         /\ tool' = "fetch"
         /\ args' = a
         /\ IF FetchInvalidId(a.id)
            THEN /\ calls' = <<>>
                 /\ result' = Return(getErrorOutput(
                                  ErrorMessage(NewError(MSG_INVALID_ID, <<>>, 0))))
                 /\ pc' = "done"
            ELSE /\ calls' = <<[op |-> IF FetchType(a.id) = S_TASK
                                       THEN "getTask" ELSE "getProject",
                                id |-> FetchObjectId(a.id)]>>
                 /\ pc' = "awaitEntity"
                 /\ UNCHANGED result
    /\ UNCHANGED <<todoistUser, resolved, response, tz, serverVars>>

\* getTask or getProject fails: the catch block answers with the message.
FetchFails ==
    /\ tool = "fetch" /\ pc = "awaitEntity"
    /\ \E e \in UpstreamErrors :
         /\ response' = [kind |-> "error", error |-> e]
         /\ result' = Return(getErrorOutput(ErrorMessage(e)))
    /\ pc' = "done"
    /\ UNCHANGED <<tool, args, calls, todoistUser, resolved, tz, serverVars>>

\* getTask returns the task: its document is returned.
FetchTaskReturns ==
    /\ tool = "fetch" /\ pc = "awaitEntity" /\ calls[1].op = "getTask"
    /\ \E task \in FetchableTasks :
         /\ response' = [kind |-> "task", task |-> task]
         /\ result' = Return(TextOutput(FetchTaskResult(task)))
    /\ pc' = "done"
    /\ UNCHANGED <<tool, args, calls, todoistUser, resolved, tz, serverVars>>

\* getProject returns the project: its document is returned.
FetchProjectReturns ==
    /\ tool = "fetch" /\ pc = "awaitEntity" /\ calls[1].op = "getProject"
    /\ \E project \in ProjectUniverse :
         /\ response' = [kind |-> "project", project |-> project]
         /\ result' = Return(TextOutput(FetchProjectResult(project)))
    /\ pc' = "done"
    /\ UNCHANGED <<tool, args, calls, todoistUser, resolved, tz, serverVars>>

-----------------------------------------------------------------------------
(* The filter helpers applied on their own, as their unit tests apply them *)

MaxTasks == 3

Modes == {"undefined"} \cup RESPONSIBLE_USER_FILTERING

Value(v) == [kind |-> "value", value |-> v]

ApplyFilterTasksByResponsibleUser ==
    /\ pc = "idle"
    /\ \E tasks \in SeqsUpTo(TaskUniverse, MaxTasks), rid \in {Undefined, <<>>, John},
          cur \in {Me, OtherUser}, mode \in Modes :
         /\ args' = [tasks |-> tasks, resolvedAssigneeId |-> rid, currentUserId |-> cur,
                     responsibleUserFiltering |-> mode]
         /\ result' = Value(filterTasksByResponsibleUser(tasks, rid, cur, mode))
    /\ tool' = "filterTasksByResponsibleUser"
    /\ pc' = "done"
    /\ UNCHANGED <<calls, todoistUser, resolved, response, tz, serverVars>>

ApplyBuildResponsibleUserQueryFilter ==
    /\ pc = "idle"
    /\ \E rid \in {Undefined, John}, email \in {Undefined, JohnEmail}, mode \in Modes :
         /\ args' = [resolvedAssigneeId |-> rid, assigneeEmail |-> email,
                     responsibleUserFiltering |-> mode]
         /\ result' = Value(buildResponsibleUserQueryFilter(rid, email, mode))
    /\ tool' = "buildResponsibleUserQueryFilter"
    /\ pc' = "done"
    /\ UNCHANGED <<calls, todoistUser, resolved, response, tz, serverVars>>

QueryParts ==
    {<<>>, S_SEARCH \o <<"a">>, <<"(", "@", "w", ")">>, S_NOT_ASSIGNED_TO_OTHERS, S_OVERDUE}

ApplyAppendToQuery ==
    /\ pc = "idle"
    /\ \E query \in QueryParts, filterComponent \in QueryParts :
         /\ args' = [query |-> query, filterComponent |-> filterComponent]
         /\ result' = Value(appendToQuery(query, filterComponent))
    /\ tool' = "appendToQuery"
    /\ pc' = "done"
    /\ UNCHANGED <<calls, todoistUser, resolved, response, tz, serverVars>>

-----------------------------------------------------------------------------
(* createMoveTaskArgs *)

MSG_ONLY_ONE ==
    "Task ${taskId}: Only one of projectId, sectionId, or parentId can be specified at a time. The Todoist API requires exactly one destination for move operations."

MSG_AT_LEAST_ONE ==
    "Task ${taskId}: At least one of projectId, sectionId, or parentId must be provided for move operations."

MSG_UNEXPECTED == "Unexpected error: No valid move parameter found"

\* Mutant: every parameter that is not undefined counts, the empty string too.
createMoveTaskArgs_CountsDefined(taskId, projectId, sectionId, parentId) ==
    LET moveParams ==
            Filter(<<projectId, sectionId, parentId>>, LAMBDA param : param # Undefined)
    IN  IF Len(moveParams) > 1 THEN Throw(NewError(MSG_ONLY_ONE, <<taskId>>, 0))
        ELSE IF Len(moveParams) = 0 THEN Throw(NewError(MSG_AT_LEAST_ONE, <<taskId>>, 0))
        ELSE IF Truthy(projectId) THEN Value([projectId |-> projectId])
        ELSE IF Truthy(sectionId) THEN Value([sectionId |-> sectionId])
        ELSE IF Truthy(parentId) THEN Value([parentId |-> parentId])
        ELSE Throw(NewError(MSG_UNEXPECTED, <<>>, 0))

\* The destination of a move, or the error thrown for none or several.
createMoveTaskArgs(taskId, projectId, sectionId, parentId) ==
    LET moveParams == Filter(<<projectId, sectionId, parentId>>, Truthy)
    IN  IF Len(moveParams) > 1 THEN Throw(NewError(MSG_ONLY_ONE, <<taskId>>, 0))
        ELSE IF Len(moveParams) = 0 THEN Throw(NewError(MSG_AT_LEAST_ONE, <<taskId>>, 0))
        ELSE IF Truthy(projectId) THEN Value([projectId |-> projectId])
        ELSE IF Truthy(sectionId) THEN Value([sectionId |-> sectionId])
        ELSE IF Truthy(parentId) THEN Value([parentId |-> parentId])
        ELSE Throw(NewError(MSG_UNEXPECTED, <<>>, 0))

\* What a caller may pass for an optional ID: nothing, '' or an ID.
OptionalIds == {Undefined, <<>>, <<"p">>, <<"q">>}

ApplyCreateMoveTaskArgs ==
    /\ pc = "idle"
    /\ \E taskId \in {<<"1">>, <<"2">>}, projectId \in OptionalIds,
          sectionId \in OptionalIds, parentId \in OptionalIds :
         /\ args' = [taskId |-> taskId, projectId |-> projectId,
                     sectionId |-> sectionId, parentId |-> parentId]
         /\ result' = createMoveTaskArgs(taskId, projectId, sectionId, parentId)
    /\ tool' = "createMoveTaskArgs"
    /\ pc' = "done"
    /\ UNCHANGED <<calls, todoistUser, resolved, response, tz, serverVars>>

-----------------------------------------------------------------------------
(* removeNullFields *)

\* JSON values: null, a string, an array of values, an object whose entries
\* are in insertion order.
JNull == [t |-> "null", items |-> <<>>, entries |-> <<>>]

JString == [t |-> "string", items |-> <<>>, entries |-> <<>>]

JArray(items) == [t |-> "array", items |-> items, entries |-> <<>>]

JObject(entries) == [t |-> "object", items |-> <<>>, entries |-> entries]

\* Array.isArray(v) && v.length === 0
IsEmptyArray(v) == v.t = "array" /\ v.items = <<>>

\* v !== null && typeof v === 'object' && !Array.isArray(v) &&
\* Object.keys(v).length === 0
IsEmptyObject(v) == v.t = "object" /\ v.entries = <<>>

RECURSIVE removeNullFields(_)
\* A new value: arrays are mapped element by element, objects are rebuilt
\* without their null entries and without the entries whose cleaned value is
\* an empty array or an empty object.
removeNullFields(obj) ==
    IF obj.t = "null" THEN obj
    ELSE IF obj.t = "array"
    THEN JArray([i \in 1..Len(obj.items) |-> removeNullFields(obj.items[i])])
    ELSE IF obj.t = "object"
    THEN LET cleaned == [i \in 1..Len(obj.entries) |->
                            [key |-> obj.entries[i].key,
                             val |-> removeNullFields(obj.entries[i].val)]]
         IN  JObject(Filter(cleaned, LAMBDA entry :
                 /\ entry.val.t # "null"
                 /\ ~IsEmptyArray(entry.val)
                 /\ ~IsEmptyObject(entry.val)))
    ELSE obj

\* How deep the values passed to removeNullFields nest, and how long their
\* arrays are.
MaxDepth == 3

MaxItems == 1

\* The key is not set.
Absent == [t |-> "absent", items |-> <<>>, entries |-> <<>>]

\* An object with keys 'a' and 'b', each absent or holding a value.
ObjectsOver(values) ==
    { JObject((IF a = Absent THEN <<>> ELSE <<[key |-> "a", val |-> a]>>)
              \o (IF b = Absent THEN <<>> ELSE <<[key |-> "b", val |-> b]>>)) :
        a \in values \cup {Absent}, b \in values \cup {Absent} }

RECURSIVE JsonValues(_)
\* The values nesting at most depth levels.
JsonValues(depth) ==
    IF depth = 0 THEN {JNull, JString}
    ELSE LET inner == JsonValues(depth - 1)
         IN  inner \cup {JArray(items) : items \in SeqsUpTo(inner, MaxItems)}
                   \cup ObjectsOver(inner)

ApplyRemoveNullFields ==
    /\ pc = "idle"
    /\ \E obj \in JsonValues(MaxDepth) :
         /\ args' = [obj |-> obj]
         /\ result' = Value(removeNullFields(obj))
    /\ tool' = "removeNullFields"
    /\ pc' = "done"
    /\ UNCHANGED <<calls, todoistUser, resolved, response, tz, serverVars>>

-----------------------------------------------------------------------------
(* The token a request carries *)

S_BEARER == <<"b", "e", "a", "r", "e", "r">>

RECURSIVE TrimStart(_)
TrimStart(s) == IF s # <<>> /\ Head(s) = " " THEN TrimStart(Tail(s)) ELSE s

RECURSIVE TrimEnd(_)
TrimEnd(s) == IF s # <<>> /\ s[Len(s)] = " " THEN TrimEnd(SubSeq(s, 1, Len(s) - 1)) ELSE s

\* String.prototype.trim
Trim(s) == TrimEnd(TrimStart(s))

\* authHeader.match(/^Bearer\s+(.+)$/i)?.[1]: what follows 'Bearer' and its
\* white space, case ignored; when only white space follows, \s+ gives its
\* last character back to the group.
BearerGroup(authHeader) ==
    IF Len(authHeader) < 8 \/ ToLowerCase(SubSeq(authHeader, 1, 6)) # S_BEARER
    THEN Undefined
    ELSE LET rest == SubSeq(authHeader, 7, Len(authHeader))
         IN  IF TrimStart(rest) = rest THEN Undefined
             ELSE IF TrimStart(rest) # <<>> THEN TrimStart(rest)
             ELSE IF Len(rest) >= 2 THEN <<" ">>
             ELSE Undefined

\* The trimmed X-Todoist-Token header if it is set, else the trimmed Bearer
\* token of the Authorization header, else null.
extractTodoistToken(headers) ==
    IF Truthy(headers.customHeader) THEN Trim(headers.customHeader)
    ELSE IF Truthy(headers.authHeader) /\ BearerGroup(headers.authHeader) # Undefined
    THEN Trim(BearerGroup(headers.authHeader))
    ELSE Null

\* Mutant: only an opening '{{' counts as a template variable.
HasTemplateVariable_OpeningOnly(todoistApiKey) ==
    Includes(todoistApiKey, <<"{", "{">>)

\* todoistApiKey.includes('{{') || todoistApiKey.includes('}}')
HasTemplateVariable(todoistApiKey) ==
    Includes(todoistApiKey, <<"{", "{">>) \/ Includes(todoistApiKey, <<"}", "}">>)

\* The headers a request arrives with.
HeaderChoices ==
    { [customHeader |-> Undefined, authHeader |-> Undefined],
      [customHeader |-> <<" ">>, authHeader |-> <<"B", "e", "a", "r", "e", "r", " ", "b">>],
      [customHeader |-> <<" ", "a", " ">>, authHeader |-> <<"B", "e", "a", "r", "e", "r", " ", "b">>],
      [customHeader |-> <<"{", "{", "a", "}", "}">>, authHeader |-> Undefined],
      [customHeader |-> Undefined, authHeader |-> <<"b", "e", "a", "r", "e", "r", " ", " ", "b", " ">>],
      [customHeader |-> Undefined, authHeader |-> <<"B", "e", "a", "r", "e", "r", " ", "a", "}", "}">>] }

-----------------------------------------------------------------------------
(* Sessions and their registries *)

\* How many transports are created in a run.
MaxSessions == 2

\* No session ID in the request; session IDs are 1, 2, ... in order of
\* creation, as randomUUID never repeats one.
NoSessionId == 0

\* The session IDs a request may name: none, every ID that can be issued and
\* one that never is.
RequestSessionIds == 0..(MaxSessions + 1)

\* new Map()
EmptyMap == [k \in {} |-> NoSessionId]

\* Map.prototype.has
MapHas(map, key) == key \in DOMAIN map

\* Mutant: the first transport of the registry answers for every session.
MapGet_First(map, key) == map[CHOOSE k \in DOMAIN map : \A other \in DOMAIN map : k <= other]

\* Map.prototype.get of a key the map has
MapGet(map, key) == map[key]

\* Map.prototype.set
MapSet(map, key, value) ==
    [k \in DOMAIN map \cup {key} |-> IF k = key THEN value ELSE map[k]]

\* Map.prototype.delete
MapDelete(map, key) == [k \in DOMAIN map \ {key} |-> map[k]]

NoHeaders == [customHeader |-> Undefined, authHeader |-> Undefined]

Request(method, path, sessionId, isInit, headers) ==
    [method |-> method, path |-> path, sessionId |-> sessionId, isInit |-> isInit,
     headers |-> headers]

NoRequest == Request("none", "none", NoSessionId, FALSE, NoHeaders)

\* The answer to a request: the status the handler itself sends (0 when it
\* sends none) and the transport the request was handed to (0 when none).
Reply(status, transport, request) ==
    [status |-> status, transport |-> transport, request |-> request]

NoReply == Reply(0, 0, NoRequest)

\* A transport and the server instance connected to it: the token
\* getMcpServer was given, the headers of the request that created it, and
\* how far the connection has come.
Session(front, todoistApiKey, headers) ==
    [front |-> front, todoistApiKey |-> todoistApiKey, headers |-> headers,
     phase |-> "connecting"]

\* The transports of one front end that are in one of the phases.
InPhase(front, phases) ==
    {i \in 1..Len(sessions) : sessions[i].front = front /\ sessions[i].phase \in phases}

NoSessions ==
    /\ transports = [sse |-> EmptyMap, http |-> EmptyMap]
    /\ sessions = <<>>
    /\ reply = NoReply

-----------------------------------------------------------------------------
(* The SSE server: GET /sse and POST /message *)

\* GET /sse: 401 without a usable token; else a server instance and a
\* transport are created, the transport is registered and its handlers set,
\* and server.connect is awaited.
SseGet ==
    /\ \E headers \in HeaderChoices :
         LET todoistApiKey == extractTodoistToken(headers)
             request == Request("GET", "/sse", NoSessionId, FALSE, headers)
         IN  IF ~Truthy(todoistApiKey) \/ HasTemplateVariable(todoistApiKey)
             THEN /\ reply' = Reply(401, 0, request)
                  /\ UNCHANGED <<transports, sessions>>
             ELSE /\ Len(sessions) < MaxSessions
                  /\ sessions' = Append(sessions, Session("sse", todoistApiKey, headers))
                  /\ transports' = [transports EXCEPT
                         !.sse = MapSet(@, Len(sessions) + 1, Len(sessions) + 1)]
                  /\ reply' = Reply(0, 0, request)
    /\ UNCHANGED toolVars

\* server.connect resolves: the stream is open.
SseConnectReturns ==
    /\ \E i \in InPhase("sse", {"connecting"}) :
         sessions' = [sessions EXCEPT ![i].phase = "connected"]
    /\ reply' = NoReply
    /\ UNCHANGED <<transports, toolVars>>

\* server.connect rejects: the catch block answers 500 unless the headers
\* are out already.
SseConnectThrows ==
    /\ \E i \in InPhase("sse", {"connecting"}) :
         /\ sessions' = [sessions EXCEPT ![i].phase = "failed"]
         /\ \E status \in {500, 0} :
                reply' = Reply(status, 0,
                               Request("GET", "/sse", NoSessionId, FALSE, sessions[i].headers))
    /\ UNCHANGED <<transports, toolVars>>

\* transport.onclose
SseClose ==
    /\ \E i \in InPhase("sse", {"connected", "errored"}) :
         /\ transports' = [transports EXCEPT !.sse = MapDelete(@, i)]
         /\ sessions' = [sessions EXCEPT ![i].phase = "closed"]
    /\ reply' = NoReply
    /\ UNCHANGED toolVars

\* transport.onerror
SseError ==
    /\ \E i \in InPhase("sse", {"connected"}) :
         /\ transports' = [transports EXCEPT !.sse = MapDelete(@, i)]
         /\ sessions' = [sessions EXCEPT ![i].phase = "errored"]
    /\ reply' = NoReply
    /\ UNCHANGED toolVars

\* POST /message?sessionId=...: 400 without a session ID, 404 when the
\* registry has no transport for it, else the transport handles the message.
SsePostMessage ==
    /\ \E sessionId \in RequestSessionIds :
         LET request == Request("POST", "/message", sessionId, FALSE, NoHeaders)
         IN  IF sessionId = NoSessionId THEN reply' = Reply(400, 0, request)
             ELSE IF ~MapHas(transports.sse, sessionId) THEN reply' = Reply(404, 0, request)
             ELSE reply' = Reply(0, MapGet(transports.sse, sessionId), request)
    /\ UNCHANGED <<transports, sessions, toolVars>>

-----------------------------------------------------------------------------
(* The HTTP server: ALL /mcp *)

\* The requests /mcp receives.  Only a POST has a body that can be an
\* initialize request; the handler reads the token headers of no other
\* request, which come without a token or with a good one.
McpRequests ==
    { Request("POST", "/mcp", sessionId, TRUE, headers) :
        sessionId \in RequestSessionIds, headers \in HeaderChoices }
    \cup
    { Request(method, "/mcp", sessionId, FALSE, headers) :
        method \in {"GET", "POST", "DELETE"}, sessionId \in RequestSessionIds,
        headers \in {NoHeaders, [customHeader |-> <<"a">>, authHeader |-> Undefined]} }

\* A request to /mcp.  A registered session ID: its transport handles the
\* request, and a DELETE closes the session.  No session ID, POST and an
\* initialize body: 401 without a usable token, else a transport and a server
\* instance are created and server.connect is awaited.  Anything else: 400.
HttpMcp ==
    /\ \E request \in McpRequests :
         LET sessionId == request.sessionId
             todoistApiKey == extractTodoistToken(request.headers)
         IN  IF sessionId # NoSessionId /\ MapHas(transports.http, sessionId)
             THEN LET transport == MapGet(transports.http, sessionId)
                  IN  /\ reply' = Reply(0, transport, request)
                      /\ IF request.method = "DELETE"
                         THEN /\ transports' = [transports EXCEPT
                                     !.http = MapDelete(@, transport)]
                              /\ sessions' = [sessions EXCEPT ![transport].phase = "closed"]
                         ELSE UNCHANGED <<transports, sessions>>
             ELSE IF sessionId = NoSessionId /\ request.method = "POST" /\ request.isInit
             THEN IF ~Truthy(todoistApiKey) \/ HasTemplateVariable(todoistApiKey)
                  THEN /\ reply' = Reply(401, 0, request)
                       /\ UNCHANGED <<transports, sessions>>
                  ELSE /\ Len(sessions) < MaxSessions
                       /\ sessions' = Append(sessions,
                                             Session("http", todoistApiKey, request.headers))
                       /\ reply' = Reply(0, 0, request)
                       /\ UNCHANGED transports
             ELSE /\ reply' = Reply(400, 0, request)
                  /\ UNCHANGED <<transports, sessions>>
    /\ UNCHANGED toolVars

\* server.connect resolves: the new transport handles the initialize request,
\* and onsessioninitialized registers it under its session ID.
HttpConnectReturns ==
    /\ \E i \in InPhase("http", {"connecting"}) :
         /\ sessions' = [sessions EXCEPT ![i].phase = "connected"]
         /\ transports' = [transports EXCEPT !.http = MapSet(@, i, i)]
         /\ reply' = Reply(0, i, Request("POST", "/mcp", NoSessionId, TRUE, sessions[i].headers))
    /\ UNCHANGED toolVars

\* server.connect rejects: the catch block answers 500.
HttpConnectThrows ==
    /\ \E i \in InPhase("http", {"connecting"}) :
         /\ sessions' = [sessions EXCEPT ![i].phase = "failed"]
         /\ reply' = Reply(500, 0, Request("POST", "/mcp", NoSessionId, TRUE, sessions[i].headers))
    /\ UNCHANGED <<transports, toolVars>>

\* transport.onclose
HttpClose ==
    /\ \E i \in InPhase("http", {"connected", "errored"}) :
         /\ transports' = [transports EXCEPT
                !.http = IF MapHas(@, i) THEN MapDelete(@, i) ELSE @]
         /\ sessions' = [sessions EXCEPT ![i].phase = "closed"]
    /\ reply' = NoReply
    /\ UNCHANGED toolVars

\* transport.onerror
HttpError ==
    /\ \E i \in InPhase("http", {"connected"}) :
         /\ transports' = [transports EXCEPT !.http = MapDelete(@, i)]
         /\ sessions' = [sessions EXCEPT ![i].phase = "errored"]
    /\ reply' = NoReply
    /\ UNCHANGED toolVars

-----------------------------------------------------------------------------
(* The server between invocations *)

Idle ==
    /\ tool = "none"
    /\ pc = "idle"
    /\ args = [none |-> TRUE]
    /\ calls = <<>>
    /\ todoistUser = NoUser
    /\ resolved = NotResolved
    /\ response = NoResponse
    /\ result = NoResult

\* The invocation has returned or thrown; the next one starts from scratch.
Finish ==
    /\ pc = "done"
    /\ tool' = "none"
    /\ pc' = "idle"
    /\ args' = [none |-> TRUE]
    /\ calls' = <<>>
    /\ todoistUser' = NoUser
    /\ resolved' = NotResolved
    /\ response' = NoResponse
    /\ result' = NoResult
    /\ UNCHANGED <<tz, serverVars>>

\* The zone is fixed when the process starts.
Init == Idle /\ tz \in TimeZones /\ NoSessions

\* find-tasks never reads the zone: its behaviours are those of one zone.
InitUTC == Idle /\ tz = 0 /\ NoSessions

NextFindTasks ==
    \/ FindTasksInvoke
    \/ FindTasksGetUserFails
    \/ FindTasksGetUserReturns
    \/ FindTasksResolveFails
    \/ FindTasksResolveReturns
    \/ FindTasksListFails
    \/ FindTasksListReturns
    \/ Finish

SpecFindTasks == InitUTC /\ [][NextFindTasks]_vars

NextFindTasksByDate ==
    \/ FindTasksByDateInvoke
    \/ FindTasksByDateListFails
    \/ FindTasksByDateListReturns
    \/ Finish

SpecFindTasksByDate == Init /\ [][NextFindTasksByDate]_vars

NextFilterHelpers ==
    \/ ApplyFilterTasksByResponsibleUser
    \/ ApplyBuildResponsibleUserQueryFilter
    \/ ApplyAppendToQuery
    \/ Finish

SpecFilterHelpers == InitUTC /\ [][NextFilterHelpers]_vars

\* find-tasks together with the helper of the same module it does not call.
NextResponsibleUser ==
    \/ NextFindTasks
    \/ ApplyBuildResponsibleUserQueryFilter

SpecResponsibleUser == InitUTC /\ [][NextResponsibleUser]_vars

NextFindActivity ==
    \/ FindActivityInvoke
    \/ FindActivityFails
    \/ FindActivityReturns
    \/ Finish

SpecFindActivity == InitUTC /\ [][NextFindActivity]_vars

NextSearch ==
    \/ SearchInvoke
    \/ SearchTasksReturn
    \/ SearchTasksFail
    \/ SearchProjectsReturn
    \/ SearchProjectsFail
    \/ Finish

SpecSearch == InitUTC /\ [][NextSearch]_vars

NextFetch ==
    \/ FetchInvoke
    \/ FetchFails
    \/ FetchTaskReturns
    \/ FetchProjectReturns
    \/ Finish

SpecFetch == InitUTC /\ [][NextFetch]_vars

\* The tools that send filter queries, with the append helper on its own.
NextQueries ==
    \/ NextFindTasks
    \/ NextFindTasksByDate
    \/ ApplyAppendToQuery

SpecQueries == InitUTC /\ [][NextQueries]_vars

\* The tools that list entities page by page, and search, which asks for one
\* page of each kind.
NextListTools ==
    \/ NextFindTasks
    \/ NextFindTasksByDate
    \/ NextFindActivity
    \/ NextSearch

SpecListTools == InitUTC /\ [][NextListTools]_vars

\* The two tools that answer with a text envelope.
NextSearchFetch ==
    \/ NextSearch
    \/ NextFetch

SpecSearchFetch == InitUTC /\ [][NextSearchFetch]_vars

NextMoveArgs ==
    \/ ApplyCreateMoveTaskArgs
    \/ Finish

SpecMoveArgs == InitUTC /\ [][NextMoveArgs]_vars

NextSanitize ==
    \/ ApplyRemoveNullFields
    \/ Finish

SpecSanitize == InitUTC /\ [][NextSanitize]_vars

NextSseServer ==
    \/ SseGet
    \/ SseConnectReturns
    \/ SseConnectThrows
    \/ SseClose
    \/ SseError
    \/ SsePostMessage

SpecSseServer == InitUTC /\ [][NextSseServer]_vars

NextHttpServer ==
    \/ HttpMcp
    \/ HttpConnectReturns
    \/ HttpConnectThrows
    \/ HttpClose
    \/ HttpError

SpecHttpServer == InitUTC /\ [][NextHttpServer]_vars

\* The front ends are two programs, each with its own registry: a process
\* that has opened sessions is one of the two.
NextServers ==
    \/ (\A i \in 1..Len(sessions) : sessions[i].front = "sse") /\ NextSseServer
    \/ (\A i \in 1..Len(sessions) : sessions[i].front = "http") /\ NextHttpServer

SpecServers == InitUTC /\ [][NextServers]_vars

\* The five tools that call upstream.
NextTools ==
    \/ NextFindTasks
    \/ NextFindTasksByDate
    \/ NextFindActivity
    \/ NextSearch
    \/ NextFetch

SpecTools == InitUTC /\ [][NextTools]_vars

Next ==
    \/ NextFindTasks
    \/ NextFindTasksByDate
    \/ NextFilterHelpers
    \/ NextFindActivity
    \/ NextSearch
    \/ NextFetch
    \/ NextMoveArgs
    \/ NextSanitize
    \/ NextServers

Spec == Init /\ [][Next]_vars

-----------------------------------------------------------------------------
(* Claims about find-tasks and the responsible-user helpers *)

Ok == pc = "done" /\ result.kind = "ok"

Threw(message) ==
    pc = "done" /\ result.kind = "throw" /\ result.error.message = message

\* The positions in calls of the task-listing requests.
ListingCalls == {i \in 1..Len(calls) : calls[i].op \in {"getTasks", "getTasksByFilter"}}

\* C1: a find-tasks invocation with no filter at all is rejected with the
\* 'At least one filter must be provided' error before any upstream call, the
\* current-user lookup included, has been issued.
C1_RejectedBeforeAnyCall ==
    (tool = "find-tasks" /\ NoFilterProvided(args))
        => /\ calls = <<>>
           /\ pc = "done" => Threw(MSG_MISSING_FILTER)

\* The invocation is past validation and past the resolution of responsibleUser.
PassedResolution ==
    /\ todoistUser.id = Me
    /\ ~NoFilterProvided(args)
    /\ Truthy(args.responsibleUser) => Truthy(resolved.userId)

\* C2: every find-tasks invocation that passes validation and user resolution
\* issues exactly one task-listing call, the container listing if and only if
\* a projectId, sectionId or parentId is supplied and the filter endpoint
\* otherwise; before that point it has issued none.
C2_ExactlyOneListingCall ==
    tool = "find-tasks"
        => IF PassedResolution
           THEN /\ Cardinality(ListingCalls) = 1
                /\ \A i \in ListingCalls :
                     IF \/ args.projectId # Undefined
                        \/ args.sectionId # Undefined
                        \/ args.parentId # Undefined
                     THEN calls[i].op = "getTasks"
                     ELSE calls[i].op = "getTasksByFilter"
           ELSE ListingCalls = {}

\* C2 witness: a container search that also carries search text and a resolved
\* responsible user has returned, having listed the container once.
C2_Witness ==
    /\ tool = "find-tasks" /\ Ok
    /\ Truthy(args.sectionId) /\ Truthy(args.searchText) /\ Truthy(resolved.userId)
    /\ \E i \in ListingCalls : calls[i].op = "getTasks"

\* C3: with responsibleUserFiltering 'assigned' and no responsibleUser, every
\* task find-tasks returns is assigned to someone other than the caller.
C3_AssignedReturnsOnlyOthers ==
    (tool = "find-tasks" /\ Ok /\ args.responsibleUserFiltering = "assigned"
         /\ ~Truthy(args.responsibleUser))
        => \A i \in 1..Len(result.structuredContent.tasks) :
             LET uid == result.structuredContent.tasks[i].responsibleUid
             IN  Truthy(uid) /\ uid # todoistUser.id

\* The tasks of a list that are unassigned or assigned to cur, in order.
RECURSIVE KeepUnassignedOrMine(_, _)
KeepUnassignedOrMine(tasks, cur) ==
    IF Len(tasks) = 0 THEN <<>>
    ELSE LET uid == Head(tasks).responsibleUid
             rest == KeepUnassignedOrMine(Tail(tasks), cur)
         IN  IF uid \in {Null, Undefined, <<>>, cur} THEN <<Head(tasks)>> \o rest ELSE rest

C5_IdentityBeatsMode ==
    /\ (tool = "find-tasks" /\ Truthy(resolved.userId))
           => \A m \in Modes :
                LET other == [args EXCEPT !.responsibleUserFiltering = m]
                IN  /\ calls[Len(calls)] = FindTasksListCall(other, resolved)
                    /\ Ok => result.structuredContent.tasks
                                 = FindTasksTasks(other, resolved, todoistUser, response.page)
    /\ (tool = "buildResponsibleUserQueryFilter" /\ pc = "done"
           /\ Truthy(args.resolvedAssigneeId) /\ Truthy(args.assigneeEmail))
           => result.value = S_ASSIGNED_TO \o args.assigneeEmail

\* C5 witness: a container search for a resolved user in mode 'all' has
\* returned fewer tasks than the page held.
C5_Witness ==
    /\ tool = "find-tasks" /\ Ok /\ Truthy(resolved.userId)
    /\ args.responsibleUserFiltering = "all"
    /\ IsContainerSearch(args)
    /\ Len(result.structuredContent.tasks) = 1
    /\ Len(response.page.results) = 2

-----------------------------------------------------------------------------
(* Claims about find-tasks-by-date *)

\* The query of the one filter request find-tasks-by-date has sent.
SentQuery == calls[1].query

\* s is t alone, or t followed by the ' & ' joiner and more.
IsFirstFragment(s, t) ==
    /\ StartsWith(s, t)
    /\ Len(s) > Len(t) => StartsWith(SubSeq(s, Len(t) + 1, Len(s)), S_AMP)

EndsWith(s, t) == Len(s) >= Len(t) /\ SubSeq(s, Len(s) - Len(t) + 1, Len(s)) = t

C8_DefaultModeReturnsOnlyMineOrUnassigned ==
    (tool = "find-tasks-by-date" /\ Ok
         /\ args.responsibleUserFiltering \in {"undefined", "unassignedOrMe"})
        => \A i \in 1..Len(result.structuredContent.tasks) :
             LET uid == result.structuredContent.tasks[i].responsibleUid
             IN  ~Truthy(uid) \/ uid = Me

\* Days from 1970-01-01 to a civil date, by era arithmetic.
DaysFromCivil(y, m, d) ==
    LET yy == IF m <= 2 THEN y - 1 ELSE y
        era == yy \div 400
        yoe == yy - era * 400
        mp == (m + 9) % 12
        doy == (153 * mp + 2) \div 5 + d - 1
        doe == yoe * 365 + yoe \div 4 - yoe \div 100 + doy
    IN  era * 146097 + doe - 719468

\* The day number of a 'YYYY-MM-DD' string.
DayNumber(s) ==
    DaysFromCivil(ParseDigits(SubSeq(s, 1, 4)), ParseDigits(SubSeq(s, 6, 7)),
                  ParseDigits(SubSeq(s, 9, 10)))

IsDigit(c) == \E i \in 1..10 : DigitChars[i] = c

\* s is a 'YYYY-MM-DD' string naming a day of the calendar.
IsCalendarDate(s) ==
    /\ Len(s) = 10
    /\ \A i \in {1, 2, 3, 4, 6, 7, 9, 10} : IsDigit(s[i])
    /\ s[5] = "-" /\ s[8] = "-"
    /\ ParseDigits(SubSeq(s, 6, 7)) \in 1..12
    /\ ParseDigits(SubSeq(s, 9, 10))
           \in 1..DaysInMonth(ParseDigits(SubSeq(s, 1, 4)), ParseDigits(SubSeq(s, 6, 7)))

\* C9: for an explicit start date d and daysCount n the query is
\* '(due after: d | due: d) & due before: e' with e the calendar date exactly
\* n days after d.
C9_WindowEndsAtStartPlusDays ==
    (tool = "find-tasks-by-date" /\ Len(calls) = 1
         /\ args.startDate \in StartDates /\ args.overdueOption # "overdue-only")
        => LET head == S_DUE_AFTER \o args.startDate \o S_OR_DUE \o args.startDate
                           \o S_DUE_BEFORE
               e == SubSeq(SentQuery, Len(head) + 1, Len(head) + 10)
           IN  /\ StartsWith(SentQuery, head)
               /\ Len(SentQuery) >= Len(head) + 10
               /\ IsCalendarDate(e)
               /\ IsFirstFragment(SentQuery, head \o e)
               /\ DayNumber(e) = DayNumber(args.startDate) + args.daysCount

-----------------------------------------------------------------------------
(* Claims about the find-tasks filter query *)

\* C10: without a container ID and with search text and/or labels, the query
\* sent to the filter endpoint is 'search: <searchText>' when search text is
\* given, then the parenthesized label fragment when labels are given, the two
\* joined by ' & ', and nothing else.
C10_FilterQueryIsSearchAndLabels ==
    (tool = "find-tasks" /\ ListingCalls # {}
         /\ args.projectId = Undefined /\ args.sectionId = Undefined
         /\ args.parentId = Undefined
         /\ (Truthy(args.searchText) \/ HasLabels(args.labels)))
        => \A i \in ListingCalls :
             LET search == S_SEARCH \o args.searchText
                 labelsFragment == generateLabelsFilter(args.labels, args.labelsOperator)
             IN  /\ calls[i].op = "getTasksByFilter"
                 /\ calls[i].query =
                        IF Truthy(args.searchText) /\ HasLabels(args.labels)
                        THEN search \o <<" ", "&", " ">> \o labelsFragment
                        ELSE IF Truthy(args.searchText) THEN search
                        ELSE labelsFragment
                 /\ args.labels = <<<<"w">>>>
                        => EndsWith(calls[i].query, <<"(", "@", "w", ")">>)
                 /\ (args.labels = <<<<"@", "w">>, <<"u">>>> /\ args.labelsOperator = "and")
                        => EndsWith(calls[i].query,
                                    <<"(", "@", "w", " ", " ", "&", " ", " ", "@", "u", ")">>)

\* C10 witness: search text, labels and a resolved responsible user: the query
\* sent is 'search: a & (@w)'.
C10_Witness ==
    /\ tool = "find-tasks" /\ Ok /\ Truthy(resolved.userId)
    /\ \E i \in ListingCalls :
         /\ calls[i].op = "getTasksByFilter"
         /\ calls[i].query = S_SEARCH \o <<"a", " ", "&", " ", "(", "@", "w", ")">>

-----------------------------------------------------------------------------
(* Claims about where find-tasks filters by responsible user *)

\* The invocation searches by text outside any container and has sent its
\* task-listing request.
SearchTextMode ==
    /\ tool = "find-tasks" /\ ListingCalls # {}
    /\ ~IsContainerSearch(args) /\ Truthy(args.searchText)

\* The tasks of a list assigned to uid, in order.
RECURSIVE KeepAssignedTo(_, _)
KeepAssignedTo(tasks, uid) ==
    IF Len(tasks) = 0 THEN <<>>
    ELSE LET rest == KeepAssignedTo(Tail(tasks), uid)
         IN  IF Head(tasks).responsibleUid = uid THEN <<Head(tasks)>> \o rest ELSE rest

-----------------------------------------------------------------------------
(* Claims about the shape of the filter queries *)

\* The operands of a query: what stands between its '&' and '|' operators.
RECURSIVE Operands(_)
Operands(q) ==
    IF \A i \in 1..Len(q) : q[i] \notin {"&", "|"} THEN <<q>>
    ELSE LET i == CHOOSE k \in 1..Len(q) :
                      q[k] \in {"&", "|"} /\ \A j \in 1..(k - 1) : q[j] \notin {"&", "|"}
         IN  <<SubSeq(q, 1, i - 1)>> \o Operands(SubSeq(q, i + 1, Len(q)))

\* An operand says something: it is more than blanks and parentheses.
HasContent(operand) == \E i \in 1..Len(operand) : operand[i] \notin {" ", "(", ")"}

WellFormedQuery(q) ==
    /\ Len(q) > 0
    /\ q[1] # "&" /\ q[Len(q)] # "&"
    /\ \A i \in 1..Len(Operands(q)) : HasContent(Operands(q)[i])

\* C12: every query find-tasks or find-tasks-by-date sends to the filter
\* endpoint is non-empty, neither begins nor ends with the '&' joiner and has
\* no empty operand between two joiners; appendToQuery returns the query
\* unchanged for an empty component and the component alone for an empty query.
C12_QueriesAreWellFormed ==
    /\ tool \in {"find-tasks", "find-tasks-by-date"}
           => \A i \in 1..Len(calls) :
                calls[i].op = "getTasksByFilter" => WellFormedQuery(calls[i].query)
    /\ (tool = "appendToQuery" /\ pc = "done")
           => /\ args.filterComponent = <<>> => result.value = args.query
              /\ args.query = <<>> => result.value = args.filterComponent

\* C12 witness: a labels-only find-tasks search, whose running query is empty
\* when the label fragment is appended, has sent '(@w)'.
C12_Witness ==
    /\ tool = "find-tasks" /\ Ok
    /\ ~Truthy(args.searchText)
    /\ calls[Len(calls)].op = "getTasksByFilter"
    /\ calls[Len(calls)].query = <<"(", "@", "w", ")">>

-----------------------------------------------------------------------------
(* Claims about the structured payload and the pagination cursor *)

\* The entity array of the structured payload.
Entities ==
    IF tool = "find-activity" THEN result.structuredContent.events
    ELSE result.structuredContent.tasks

\* C13: on every successful return of find-tasks (container, responsible-only
\* and filter paths), find-tasks-by-date and find-activity, hasMore is true
\* exactly when the upstream next cursor is present, nextCursor is the upstream
\* next cursor, totalCount is the length of the entity array of the same
\* payload, and appliedFilters is the argument object as received.
C13_PayloadIsConsistent ==
    (tool \in {"find-tasks", "find-tasks-by-date", "find-activity"} /\ Ok)
        => /\ result.structuredContent.hasMore = (response.page.nextCursor # Null)
           /\ result.structuredContent.nextCursor = response.page.nextCursor
           /\ result.structuredContent.totalCount = Len(Entities)
           /\ result.structuredContent.appliedFilters = args

\* C13 witness: a container search returned one task of a page of two that
\* came with a next cursor: totalCount is 1 and hasMore is true.
C13_Witness ==
    /\ tool = "find-tasks" /\ Ok /\ IsContainerSearch(args)
    /\ Len(response.page.results) = 2
    /\ response.page.nextCursor = <<"n">>
    /\ result.structuredContent.totalCount = 1
    /\ Len(result.structuredContent.tasks) = 1
    /\ result.structuredContent.hasMore

\* The requests that take a pagination cursor.
CursorCalls ==
    {i \in 1..Len(calls) : calls[i].op \in {"getTasks", "getTasksByFilter", "getActivityLogs"}}

\* C14: the cursor is threaded through unchanged.  The cursor of every
\* upstream request is the cursor argument of the invocation, or an absent
\* value (null or undefined) when there is none; search, which takes no cursor,
\* sends none; and the nextCursor returned is the one the upstream returned.
C14_CursorThreadedUnchanged ==
    /\ tool \in {"find-tasks", "find-tasks-by-date", "find-activity"}
           => /\ \A i \in CursorCalls :
                   IF args.cursor # Undefined
                   THEN calls[i].cursor = args.cursor
                   ELSE calls[i].cursor \in {Null, Undefined}
              /\ Ok => result.structuredContent.nextCursor = response.page.nextCursor
    /\ tool = "search" => \A i \in CursorCalls : calls[i].cursor = Undefined

\* C14 witness: find-activity invoked with cursor 'c' sent 'c' upstream and
\* returned the next cursor 'n' it was given.
C14_Witness ==
    /\ tool = "find-activity" /\ Ok
    /\ args.cursor = <<"c">> /\ calls[1].cursor = <<"c">>
    /\ response.page.nextCursor = <<"n">>
    /\ result.structuredContent.nextCursor = <<"n">>

-----------------------------------------------------------------------------
(* Claims about the order of the tasks find-tasks returns *)

\* a can be had from b by removing entries, without reordering.
RECURSIVE IsSubsequence(_, _)
IsSubsequence(a, b) ==
    IF Len(a) = 0 THEN TRUE
    ELSE IF Len(b) = 0 THEN FALSE
    ELSE IF Head(a) = Head(b) THEN IsSubsequence(Tail(a), Tail(b))
    ELSE IsSubsequence(a, Tail(b))

\* C15: the tasks find-tasks returns are a subsequence of the page the upstream
\* call returned, in upstream order: filtering by search text, responsible user
\* and labels removes entries and never reorders, duplicates or adds any.
C15_TasksAreSubsequenceOfPage ==
    (tool = "find-tasks" /\ Ok)
        => IsSubsequence(result.structuredContent.tasks,
                         [i \in 1..Len(response.page.results) |->
                             mapTask(response.page.results[i])])

\* C15 witness: a container search with search text and labels was given two
\* different tasks, dropped the first and returned the second.
C15_Witness ==
    /\ tool = "find-tasks" /\ Ok /\ IsContainerSearch(args)
    /\ Truthy(args.searchText) /\ HasLabels(args.labels)
    /\ Len(response.page.results) = 2
    /\ response.page.results[1] # response.page.results[2]
    /\ result.structuredContent.tasks = <<mapTask(response.page.results[2])>>

-----------------------------------------------------------------------------
(* Claims about fetch *)

\* The position of the first colon of an ID, 0 when it has none.
FirstColon(id) ==
    IF \A i \in 1..Len(id) : id[i] # ":" THEN 0
    ELSE CHOOSE k \in 1..Len(id) : id[k] = ":" /\ \A j \in 1..(k - 1) : id[j] # ":"

\* What stands before the first colon, and everything that stands after it.
KindOf(id) == SubSeq(id, 1, FirstColon(id) - 1)

RestOf(id) == SubSeq(id, FirstColon(id) + 1, Len(id))

\* The ID is '<kind>:<rest>' with kind 'task' or 'project' and a rest.
WellFormedId(id) ==
    /\ FirstColon(id) > 0
    /\ KindOf(id) \in {S_TASK, S_PROJECT}
    /\ RestOf(id) # <<>>

\* The one text item of the envelope execute returned.
Envelope == result.value

IsErrorEnvelope ==
    /\ pc = "done" /\ result.kind = "return"
    /\ "isError" \in DOMAIN Envelope /\ Envelope.isError = TRUE
    /\ Len(Envelope.content) = 1 /\ Envelope.content[1].type = "text"

\* C16: for every id '<kind>:<rest>' with kind exactly 'task' or 'project' and
\* a non-empty rest, fetch requests the entity of that kind whose ID is the
\* whole of rest, everything after the first colon, further colons included.
C16_ObjectIdIsWholeRemainder ==
    (tool = "fetch" /\ WellFormedId(args.id))
        => /\ Len(calls) = 1
           /\ calls[1].op = (IF KindOf(args.id) = S_TASK THEN "getTask" ELSE "getProject")
           /\ calls[1].id = RestOf(args.id)

\* C17: fetch called with an id that has no colon, an empty prefix, a prefix
\* other than exactly 'task' or 'project', or an empty remainder returns the
\* isError envelope with the 'Invalid ID format' message and sends no request.
C17_InvalidIdIsRejectedLocally ==
    (tool = "fetch" /\ ~WellFormedId(args.id))
        => /\ calls = <<>>
           /\ IsErrorEnvelope
           /\ Envelope.content[1].text.message = MSG_INVALID_ID

\* C17 witness: 'task:' , a remainder that is empty, was answered with the
\* error envelope and no request.
C17_Witness ==
    /\ tool = "fetch" /\ args.id = S_TASK \o S_COLON
    /\ IsErrorEnvelope /\ calls = <<>>

\* The ID was bad or an upstream call failed.
SomethingFailed ==
    \/ tool = "fetch" /\ (~WellFormedId(args.id) \/ response.kind = "error")
    \/ tool = "search" /\ (response.tasks.kind = "error" \/ response.projects.kind = "error")

\* The message of the error that was caught; a failed filter request reaches
\* search as the error its helper made of it.
CaughtMessage ==
    IF tool = "fetch"
    THEN IF response.kind = "error" THEN response.error.message ELSE MSG_INVALID_ID
    ELSE IF response.tasks.kind = "error"
    THEN TranslateFilterError(response.tasks.error, calls[1].query).message
    ELSE response.projects.error.message

Document == Envelope.content[1].text.json

\* C19: the text fetch builds for a task is the content followed by, in this
\* order and each only if present, 'Description' for a non-empty description,
\* 'Due' for a due date and 'Labels' for at least one label; with all three
\* absent it is the content and nothing more; the title is the content.
C19_TaskTextSections ==
    (tool = "fetch" /\ pc = "done" /\ response.kind = "task")
        => LET task == response.task
               description == IF task.description # <<>>
                              THEN <<"\n\nDescription: ">> \o task.description ELSE <<>>
               due == IF task.due.date # Undefined
                      THEN <<"\nDue: ">> \o task.due.date ELSE <<>>
               labels == IF Len(task.labels) = 0 THEN <<>>
                         ELSE IF Len(task.labels) = 1
                         THEN <<"\nLabels: ">> \o task.labels[1]
                         ELSE <<"\nLabels: ">> \o task.labels[1] \o <<",", " ">>
                                  \o task.labels[2]
           IN  /\ Document.title = task.content
               /\ Document.text = task.content \o description \o due \o labels
               /\ (task.description = <<>> /\ task.due.date = Undefined
                       /\ Len(task.labels) = 0)
                      => Document.text = task.content

\* C19 witness: a task with description, due date and two labels was fetched:
\* its text lists the three sections in order.
C19_Witness ==
    /\ tool = "fetch" /\ pc = "done" /\ response.kind = "task"
    /\ response.task = FullTask
    /\ Document.text = <<"d", "\n\nDescription: ", "e", "\nDue: ">> \o DueDate.date
                           \o <<"\nLabels: ", "w", ",", " ", "u">>

-----------------------------------------------------------------------------
(* Claims about search *)

\* name holds query somewhere, letter case set aside.
ContainsIgnoringCase(name, query) ==
    \E k \in 0..(Len(name) - Len(query)) :
        \A i \in 1..Len(query) : ToLowerChar(name[k + i]) = ToLowerChar(query[i])

\* The projects of a list whose name holds the query, in order.
RECURSIVE MatchingProjects(_, _)
MatchingProjects(projects, query) ==
    IF Len(projects) = 0 THEN <<>>
    ELSE LET rest == MatchingProjects(Tail(projects), query)
         IN  IF ContainsIgnoringCase(Head(projects).name, query)
             THEN <<Head(projects)>> \o rest ELSE rest

\* C20: on success the results of search are the upstream tasks in upstream
\* order, each with id 'task:<id>', followed by exactly the upstream projects
\* whose name contains the query as a case-insensitive substring, in upstream
\* order, each with id 'project:<id>'; there are as many results as upstream
\* tasks plus matching projects.
C20_TasksThenMatchingProjects ==
    (tool = "search" /\ pc = "done"
         /\ response.tasks.kind = "page" /\ response.projects.kind = "page")
        => LET tasks == response.tasks.page.results
               projects == MatchingProjects(response.projects.page.results, args.query)
               results == Document.results
           IN  /\ "isError" \notin DOMAIN Envelope
               /\ Len(results) = Len(tasks) + Len(projects)
               /\ \A i \in 1..Len(tasks) :
                    /\ results[i].id = <<"t", "a", "s", "k", ":">> \o tasks[i].id
                    /\ results[i].title = tasks[i].content
               /\ \A i \in 1..Len(projects) :
                    /\ results[Len(tasks) + i].id
                           = <<"p", "r", "o", "j", "e", "c", "t", ":">> \o projects[i].id
                    /\ results[Len(tasks) + i].title = projects[i].name

\* C20 witness: query 'a' against one task and the projects 'x' and 'Ab' gave
\* two results, the task and then project 'Ab'.
C20_Witness ==
    /\ tool = "search" /\ pc = "done" /\ args.query = <<"a">>
    /\ response.tasks.kind = "page" /\ response.projects.kind = "page"
    /\ Len(response.tasks.page.results) = 1
    /\ Len(response.projects.page.results) = 2
    /\ response.projects.page.results[1].name = <<"x">>
    /\ response.projects.page.results[2].name = <<"A", "b">>
    /\ Len(Document.results) = 2
    /\ Document.results[2].title = <<"A", "b">>

-----------------------------------------------------------------------------
(* Claims about search's two concurrent requests *)

\* Both requests of search have been sent.
BothDispatched ==
    /\ Len(calls) = 2
    /\ calls[1].op = "getTasksByFilter"
    /\ calls[2].op = "getProjects"

\* The envelope carries a results document.
HasResults == "json" \in DOMAIN Envelope.content[1].text

\* C21: search sends the task filter request and the project listing together,
\* both before either result is awaited, and composes results only when both
\* are in.  Whichever request settles first, if either fails the tool returns
\* the isError envelope and no results, not even those of the request that
\* succeeded.
C21_AllOrNothing ==
    tool = "search"
        => /\ BothDispatched
           /\ result.kind = "return"
                  => /\ pc = "done"
                     /\ (response.tasks.kind = "error" \/ response.projects.kind = "error")
                            => (IsErrorEnvelope /\ ~HasResults)
                     /\ HasResults
                            => (response.tasks.kind = "page" /\ response.projects.kind = "page")

\* C21 witness: the projects came back first, then the filter request failed
\* on an invalid query: the answer is the error envelope without results.
C21_Witness ==
    /\ tool = "search" /\ BothDispatched
    /\ response.projects.kind = "page" /\ Len(response.projects.page.results) = 2
    /\ response.tasks.kind = "error" /\ response.tasks.error.message = "Bad Request"
    /\ IsErrorEnvelope /\ ~HasResults

-----------------------------------------------------------------------------
(* Claims about failures of the filter endpoint *)

\* The request the invocation sent last.
LastCall == calls[Len(calls)]

\* A listing tool's request to the filter endpoint has failed.
FilterRequestFailed ==
    /\ tool \in {"find-tasks", "find-tasks-by-date"}
    /\ pc = "done" /\ response.kind = "error"
    /\ LastCall.op = "getTasksByFilter"

\* C22: when a request to the filter endpoint made by find-tasks,
\* find-tasks-by-date or search fails, the failure the tool surfaces is the
\* translated one: 'Invalid filter query: <query sent>' for the invalid-query
\* tag, '<message> (tag: <tag>, code: <code>)' for any other structured error,
\* the error itself when it is not structured.  This holds on every path that
\* calls the endpoint, the responsible-user-only path of find-tasks included.
C22_FilterErrorsAreTranslated ==
    /\ FilterRequestFailed
           => /\ result.kind = "throw"
              /\ result.error = TranslateFilterError(response.error, LastCall.query)
    /\ (tool = "search" /\ response.tasks.kind = "error")
           => /\ IsErrorEnvelope
              /\ Envelope.content[1].text =
                     ErrorMessage(TranslateFilterError(response.tasks.error, calls[1].query))

-----------------------------------------------------------------------------
(* Claims about the collaborator lookup of find-tasks *)

\* The operations the invocation has requested upstream, in order.
CallOps == [i \in 1..Len(calls) |-> calls[i].op]

\* find-tasks was rejected because responsibleUser matched no collaborator.
UserNotFound ==
    /\ tool = "find-tasks" /\ pc = "done"
    /\ result.kind = "throw" /\ result.error.message = MSG_USER_NOT_FOUND

\* The rejection names the input, no task listing was requested, and without
\* a responsibleUser the collaborator directory is not asked.
LookupIsLastAndOnlyOnDemand ==
    /\ UserNotFound
           => /\ result.error.parts = <<args.responsibleUser>>
              /\ LastCall = [op |-> "resolveUserNameToId", input |-> args.responsibleUser]
              /\ \A i \in 1..Len(calls) : calls[i].op \notin {"getTasks", "getTasksByFilter"}
    /\ (tool = "find-tasks" /\ ~Truthy(args.responsibleUser))
           => \A i \in 1..Len(calls) : calls[i].op # "resolveUserNameToId"

\* C23 as stated: when responsibleUser matches no collaborator, find-tasks
\* fails with an error naming the input after exactly one upstream call, the
\* collaborator lookup, and requests no task listing; without a
\* responsibleUser it makes no lookup.
C23_FailsAfterOneCall ==
    /\ LookupIsLastAndOnlyOnDemand
    /\ UserNotFound => CallOps = <<"resolveUserNameToId">>

\* C23 amended: the failure comes after exactly two upstream calls, the
\* current-user request that execute always sends first and then the
\* collaborator lookup; the rest is as stated.
C23_FailsAfterUserAndLookup ==
    /\ LookupIsLastAndOnlyOnDemand
    /\ UserNotFound => CallOps = <<"getUser", "resolveUserNameToId">>

\* C23 witness: 'j' matched nobody; the error names 'j' and the only requests
\* were the current user and the lookup.
C23_Witness ==
    /\ UserNotFound
    /\ args.responsibleUser = <<"j">> /\ result.error.parts = <<<<"j">>>>
    /\ Len(calls) = 2

-----------------------------------------------------------------------------
(* Claims about repeated requests *)

\* The invocation has seen an upstream request fail, or has failed itself.
FailureSeen ==
    \/ result.kind = "throw"
    \/ IsErrorEnvelope
    \/ response.kind = "error"
    \/ response.kind = "pair"
           /\ (response.tasks.kind = "error" \/ response.projects.kind = "error")

\* The invocation ended in a failure: a rejection or the error envelope.
EndedInFailure ==
    /\ pc = "done"
    /\ result.kind = "throw" \/ IsErrorEnvelope

\* The errors the invocation's requests are recorded to have failed with.
ErrorsSeen ==
    IF response.kind = "error" THEN {response.error}
    ELSE IF response.kind = "pair"
         THEN {r.error : r \in {q \in {response.tasks, response.projects} : q.kind = "error"}}
         ELSE {}

\* The message of the failure the invocation ended with.
SurfacedMessage ==
    IF result.kind = "throw" THEN result.error.message ELSE Envelope.content[1].text.message

\* No operation was requested twice, and a failure seen ended the invocation
\* with that failure, as it came or as the filter helper words it.
OnceAndFailFast ==
    /\ \A i, j \in 1..Len(calls) : i # j => calls[i].op # calls[j].op
    /\ FailureSeen => EndedInFailure
    /\ ErrorsSeen # {}
           => \E e \in ErrorsSeen :
                  SurfacedMessage \in {e.message, TranslateFilterError(e, <<>>).message}

\* A step that sends a request is not taken after a failure.
NoCallAfterFailure == (Len(calls') > Len(calls)) => ~FailureSeen

\* C24: no retry.  Within one invocation of find-tasks, find-tasks-by-date,
\* find-activity, search or fetch each upstream operation is requested at most
\* once, and once a request has been seen to fail the invocation sends no
\* further request and ends with a failure.
C24_NoRetry == []OnceAndFailFast /\ [][NoCallAfterFailure]_vars

\* C24 witness: find-tasks had asked for the current user and the
\* collaborator when its filter request failed; it ended there, three
\* requests sent, each once.
C24_Witness ==
    /\ tool = "find-tasks" /\ Len(calls) = 3
    /\ response.kind = "error" /\ EndedInFailure

-----------------------------------------------------------------------------
(* Claims about the day range of find-tasks-by-date *)

\* find-tasks-by-date was asked for several days starting today and has sent
\* its query.
SeveralDaysFromToday ==
    /\ tool = "find-tasks-by-date"
    /\ args.startDate = S_TODAY /\ args.overdueOption # "overdue-only"
    /\ args.daysCount > 1
    /\ Len(calls) = 1

\* C25: for startDate 'today' and daysCount N > 1, find-tasks-by-date asks for
\* the N days starting today: the query it sends covers every day from today
\* through today + N - 1, so it is not the query sent for a single day and
\* differs from one N to another.
C25_QueryDependsOnDaysCount ==
    SeveralDaysFromToday
        => \A n \in {1, 2, MaxDaysCount} \ {args.daysCount} :
               calls[1].query # FindTasksByDateQuery([args EXCEPT !.daysCount = n], tz)

-----------------------------------------------------------------------------
(* Claims about createMoveTaskArgs *)

MoveKeys == {"projectId", "sectionId", "parentId"}

\* The destinations supplied: given and not empty.
Supplied == {k \in MoveKeys : args[k] # Undefined /\ args[k] # <<>>}

\* C28: createMoveTaskArgs returns an object with exactly one of projectId,
\* sectionId, parentId if and only if exactly one of the three is supplied
\* (non-empty), and that object holds the supplied one; it throws the 'Only
\* one of' error when several are supplied and the 'At least one of' error
\* when none is, and never the final 'Unexpected error'.
C28_ExactlyOneDestination ==
    tool = "createMoveTaskArgs"
        => /\ result.kind = "value" <=> Cardinality(Supplied) = 1
           /\ result.kind = "value"
                  => \E k \in Supplied :
                         /\ DOMAIN result.value = {k}
                         /\ result.value[k] = args[k]
           /\ Cardinality(Supplied) > 1
                  => result = Throw(NewError(MSG_ONLY_ONE, <<args.taskId>>, 0))
           /\ Cardinality(Supplied) = 0
                  => result = Throw(NewError(MSG_AT_LEAST_ONE, <<args.taskId>>, 0))
           /\ result.kind = "throw" => result.error.message # MSG_UNEXPECTED

\* C28 witness: only sectionId was supplied, next to an empty projectId; the
\* destination is the section.
C28_Witness ==
    /\ tool = "createMoveTaskArgs"
    /\ args.projectId = <<>> /\ args.sectionId = <<"q">> /\ args.parentId = Undefined
    /\ result = Value([sectionId |-> <<"q">>])

-----------------------------------------------------------------------------
(* Claims about removeNullFields *)

\* The values directly inside v: the elements of an array, the values of an
\* object's entries.
Children(v) ==
    {v.items[i] : i \in 1..Len(v.items)} \cup {v.entries[i].val : i \in 1..Len(v.entries)}

RECURSIVE Within(_)
\* Every value inside v, at any depth.
Within(v) == Children(v) \cup UNION {Within(child) : child \in Children(v)}

\* v has no entry whose value is null.
NoNullField(v) == \A i \in 1..Len(v.entries) : v.entries[i].val # JNull

\* C27: the result of removeNullFields contains, at every depth, no
\* null-valued field, no empty object and no empty array, objects that become
\* empty only once their null fields are removed and elements of arrays
\* included.
C27_NothingEmptyAtAnyDepth ==
    tool = "removeNullFields"
        => /\ NoNullField(result.value)
           /\ \A v \in Within(result.value) :
                  NoNullField(v) /\ ~IsEmptyObject(v) /\ ~IsEmptyArray(v)

-----------------------------------------------------------------------------
(* Claims about the session registries *)

\* The token is there and holds no template marker.
UsableToken(token) ==
    /\ token # Null /\ token # <<>>
    /\ ~Includes(token, <<"{", "{">>) /\ ~Includes(token, <<"}", "}">>)

\* C26: user isolation across sessions.  Every message routed to a session,
\* by POST /message?sessionId= on the SSE server or by Mcp-Session-Id on the
\* HTTP server, is handled by the transport and server instance created by
\* the connection that opened that session, whose token is the one that
\* connection carried, never by an instance of another session, however
\* connections, messages and closes interleave.
C26_SessionIsolation ==
    reply.transport # 0
        => LET request == reply.request
               handler == sessions[reply.transport]
           IN  /\ handler.front = (IF request.path = "/message" THEN "sse" ELSE "http")
               /\ handler.todoistApiKey = extractTodoistToken(handler.headers)
               /\ IF request.sessionId # NoSessionId
                  THEN reply.transport = request.sessionId
                  ELSE handler.headers = request.headers

\* C26 witness: two SSE sessions are open, the first with token 'a' and the
\* second with token 'b'; a message for the second was handled by the
\* instance holding 'b'.
C26_Witness ==
    /\ DOMAIN transports.sse = {1, 2}
    /\ sessions[1].todoistApiKey = <<"a">> /\ sessions[2].todoistApiKey = <<"b">>
    /\ reply.request.path = "/message" /\ reply.request.sessionId = 2
    /\ reply.transport = 2

\* C29: the SSE registry holds exactly the sessions whose GET /sse was
\* accepted with a valid token, whose server connected (or is connecting) and
\* whose transport has not closed or failed since: close and error remove the
\* session and a failed connect leaves no entry behind.  POST /message is
\* answered 400 without a session ID and 404 for a session ID the registry
\* does not hold, in both cases without a transport being invoked.
C29_RegistryHoldsLiveSessions ==
    /\ DOMAIN transports.sse = InPhase("sse", {"connecting", "connected"})
    /\ \A i \in DOMAIN transports.sse : UsableToken(sessions[i].todoistApiKey)
    /\ reply.request.path = "/message"
           => /\ reply.request.sessionId = NoSessionId
                     => (reply.status = 400 /\ reply.transport = 0)
              /\ (reply.request.sessionId # NoSessionId
                     /\ ~MapHas(transports.sse, reply.request.sessionId))
                     => (reply.status = 404 /\ reply.transport = 0)

\* What the gate of /mcp lets through and how it answers the rest.
HttpGate ==
    LET request == reply'.request
        token == extractTodoistToken(request.headers)
        registered ==
            request.sessionId # NoSessionId /\ MapHas(transports.http, request.sessionId)
        initialize ==
            request.sessionId = NoSessionId /\ request.method = "POST" /\ request.isInit
    IN  request.path = "/mcp"
            => /\ reply'.transport # 0 => (registered \/ (initialize /\ UsableToken(token)))
               /\ reply'.status = 401 <=> (~registered /\ initialize /\ ~UsableToken(token))
               /\ reply'.status = 400 <=> (~registered /\ ~initialize)
               /\ reply'.status \in {400, 401}
                      => /\ reply'.transport = 0
                         /\ sessions' = sessions
                         /\ transports' = transports

====
